---- MODULE Spec2Model ----
(***************************************************************************)
(* TmuxDeck: the bridge protocol (server side), the bridge connection's    *)
(* channel and request tables, and the PTY terminal proxy.                 *)
(*                                                                         *)
(* The module holds several specifications over one set of variables:      *)
(*   Spec      the /ws/bridge handlers (bridge_ws) together with browser   *)
(*             terminals that attach through a registered connection;      *)
(*   SpecChan  one registered connection: channel allocation, the          *)
(*             terminals map and the routing of the agent's binary frames; *)
(*   SpecReq   the /ws/bridge handlers together with                       *)
(*             BridgeConnection.request and the agent's response frames;   *)
(*   SpecTerm  one local/host terminal proxy (_pty_terminal, terminal_ws). *)
(* A specification leaves the variables of the other parts at their        *)
(* initial values.                                                         *)
(***************************************************************************)
EXTENDS Integers, Sequences, FiniteSets, TLC

\* ------------------------------------------------------------------------
\* Bounds of the model
\* ------------------------------------------------------------------------
NumHandlers == 2        \* agent WebSocket connections accepted on /ws/bridge
NumUserWS == 2          \* browser terminals opened on one connection (SpecChan)
MaxBridgeTerms == 1     \* browser terminals opened while agents come and go (Spec)
MaxChurn == 1           \* runs of allocate_channel calls with no registration
NumRequests == 2        \* calls of BridgeConnection.request
MaxReqConns == 1        \* agent connections while requests are made (SpecReq)
MaxFrames == 2          \* browser frames of one terminal (SpecTerm)
FrameRun == 1           \* browser frames of one terminal (SpecFrame)
MaxTicks == 3           \* turns of the window-state poller (SpecPoll)
MaxTmuxChanges == 2     \* changes of the tmux session under the poller
MaxRecords == 2         \* notifications created (SpecNotif)
MaxSubs == 2            \* SSE streams opened (SpecSse)
MaxReplies == 1         \* Telegram replies handled

Handlers == 1..NumHandlers
UserWS == 1..NumUserWS
Requests == 1..NumRequests

\* ------------------------------------------------------------------------
\* Program constants
\* ------------------------------------------------------------------------
MaxChannel == 65535     \* largest channel id (2-byte header)
CloseInvalidAuth == 4000
CloseInvalidToken == 4001
CloseBridgeGone == 1001
CloseDetached == 1000
CloseDefault == 1000

NoConn == 0             \* Python None where a connection is expected
NoCode == 0             \* the WebSocket has not been closed by the server
NoBridge == "-"         \* Python None where a bridge id is expected

\* Bridge configs of the store: bridge id and token of each.
Bids == {"b1", "b2"}
TokenOf == [b \in Bids |-> IF b = "b1" THEN "t1" ELSE "t2"]

VARIABLES
    \* --- /ws/bridge handler h (one per accepted agent WebSocket); the
    \*     BridgeConnection it registers is identified by h as well
    pc,               \* position of the handler
    bridge_id,        \* local bridge_id of the handler
    existing,         \* local existing of the handler
    close_snap,       \* close_all_terminals: the list() snapshot (user sockets)
    close_todo,       \* close_all_terminals: user sockets not yet closed
    agent_open,       \* the agent has not closed its end
    ws_sent,          \* auth replies sent to the agent
    ws_close,         \* code the server closed the agent socket with
    enabled,          \* BridgeConfig.enabled of the store
    \* --- BridgeManager / BridgeConnection
    bridges,          \* BridgeManager.bridges, as a set of <<bridge_id, conn>>
    terminal_relays,  \* BridgeConnection._terminal_relays: channel -> user ws
    next_channel,     \* BridgeConnection._next_channel
    pending,          \* BridgeConnection._pending: request ids
    sessions,         \* BridgeConnection.sessions
    \* --- browser terminal w attached through a bridge connection
    term_pc,          \* "new", "allocated", "attached", "closed"
    term_conn,        \* the connection it looked up
    term_channel,     \* the channel id allocate_channel returned to it
    user_close,       \* code the server closed the user socket with
    churn_count,      \* number of allocate-only runs done
    \* --- call r of BridgeConnection.request
    req_pc,           \* "idle", "sending", "waiting", "returned", "timeout",
                      \* "send_error"
    req_conn,         \* the connection the call is made on
    fut,              \* its future: "none", "pending", "done", "cancelled"
    fut_result,       \* the result set on the future
    req_result,       \* what the call returned
    \* --- one terminal proxy (_pty_terminal, or the docker path's loop)
    path,             \* "pty" (local or host) or "docker"
    t_pc,             \* handler: "waiting", "proc_wait", "close_ws", "ended"
    task,             \* status of the three tasks
    fd_open,          \* the PTY master fd is open
    child,            \* the tmux attach child: "running", "exited"
    child_signalled,  \* proc.terminate() has been called
    child_waited,     \* proc.wait() has returned
    browser_open,     \* the browser has not closed its end
    srv_ws_closed,    \* the handler has closed the browser WebSocket
    ws_in,            \* frames ws_to_pty has received, in order
    w2p,              \* ws_to_pty: "recv", "spawn", "cmd_wait", "write"
    todo,             \* commands of the current frame not yet started
    cmds,             \* commands started, in order, with their state
    written,          \* writes to the upstream, in order
    \* --- the window-state poller of one terminal (poll_window_state): its
    \*     locals and the tmux session it reads, one record
    poller,
    \* --- NotificationManager, the Telegram bot and the SSE streams: the
    \*     objects' fields, one record
    nm,
    \* --- one PATCH (enabled=false) or DELETE call of /api/v1/bridges
    api,
    \* --- one bridge agent process (Bridge.run) and its terminals
    agent,
    \* --- module state of the backend: auth._sessions with the clock, and
    \*     DebugLog._entries
    mem,
    \* --- what the last step did
    ev

bridgeVars == <<pc, bridge_id, existing, close_snap, close_todo, agent_open,
                ws_sent, ws_close, enabled, bridges, terminal_relays,
                next_channel, pending, sessions>>
termVars == <<term_pc, term_conn, term_channel, user_close, churn_count>>
reqVars == <<req_pc, req_conn, fut, fut_result, req_result>>
ptyVars == <<path, t_pc, task, fd_open, child, child_signalled, child_waited,
             browser_open, srv_ws_closed, ws_in, w2p, todo, cmds, written>>
moreVars == <<api, agent, mem>>
sideVars == <<poller, nm, moreVars>>
vars == <<bridgeVars, termVars, reqVars, ptyVars, sideVars, ev>>

NoEvent == [op |-> "none"]
NoMsg == [json |-> "none"]

TaskNames == {"pty_to_ws", "ws_to_pty", "poll_window_state"}

\* A terminal proxy with its three tasks just created (asyncio.wait).
PtyStart(p) ==
    /\ path = p
    /\ t_pc = "waiting"
    /\ task = [t \in TaskNames |-> "running"]
    /\ fd_open = TRUE
    /\ child = "running"
    /\ child_signalled = FALSE
    /\ child_waited = FALSE
    /\ browser_open = TRUE
    /\ srv_ws_closed = FALSE
    /\ ws_in = <<>>
    /\ w2p = "recv"
    /\ todo = <<>>
    /\ cmds = <<>>
    /\ written = <<>>

\* No terminal proxy is open.
PtyUnused ==
    /\ path = "pty"
    /\ t_pc = "ended"
    /\ task = [t \in TaskNames |-> "done"]
    /\ fd_open = FALSE
    /\ child = "exited"
    /\ child_signalled = FALSE
    /\ child_waited = TRUE
    /\ browser_open = FALSE
    /\ srv_ws_closed = TRUE
    /\ ws_in = <<>>
    /\ w2p = "recv"
    /\ todo = <<>>
    /\ cmds = <<>>
    /\ written = <<>>

\* Python None where a window index is expected.
NoActive == -1

\* Python None where a list of windows or a pushed pair is expected.
NoWindows == [some |-> FALSE, list |-> <<>>]
NoPush == [some |-> FALSE, active |-> NoActive, summary |-> <<>>]

\* poll_window_state starts: last_active and last_windows are None.
PollStart(windows) ==
    [tmux_windows |-> windows, last_active |-> NoActive,
     last_windows |-> NoWindows, last_push |-> NoPush, poll_ticks |-> 0,
     tmux_changes |-> 0]

\* No window-state poller is running.
PollIdle == poller = PollStart(<<>>)

\* Python None where a Telegram message id or chat id is expected
\* (Telegram message ids start at 1).
NoMsgId == 0
NoChat == "-"
\* Python None as the tmux_window filter of dismiss.
NoWindow == -1
\* settings.get("telegramNotificationTimeoutSecs", 60)
DefaultTimeout == 60

Records == 1..MaxRecords
Subs == 1..MaxSubs

NoRecord ==
    [status |-> "none", session_id |-> "", container_id |-> "",
     tmux_session |-> "", tmux_window |-> 0, channels |-> <<>>,
     telegram_message_id |-> NoMsgId, telegram_chat_id |-> NoChat,
     responses |-> <<>>]
NoTimer == [st |-> "none", cancel |-> FALSE, idx |-> 0, delay |-> 0]

\* NotificationManager.__init__ for the given records and streams, with the
\* given bot, chats and setting.
NotifNew(rs, qs, bot, cs, secs) ==
    [rec |-> [n \in rs |-> NoRecord],
     notifications |-> {},
     timer |-> [n \in rs |-> NoTimer],
     send_calls |-> [n \in rs |-> 0],
     timers_made |-> [n \in rs |-> 0],
     telegram_bot |-> bot,
     chats |-> cs,
     timeout_secs |-> secs,
     sse_subscribers |-> {},
     queue |-> [q \in qs |-> <<>>],
     delivered |-> [q \in qs |-> <<>>],
     sub_pc |-> [q \in qs |-> "none"],
     sub_from |-> [q \in qs |-> 0],
     log |-> <<>>,
     send_tasks |-> <<>>,
     tmux_cmds |-> <<>>,
     replies |-> <<>>,
     cleaned |-> FALSE,
     tg_sent |-> {}]

NotifStart(bot, cs, secs) == nm = NotifNew(Records, Subs, bot, cs, secs)

\* No notification is ever posted: no record, no timer, no stream.
NotifIdle == nm = NotifNew({}, {}, "none", <<>>, DefaultTimeout)

\* No bridge config is being disabled or deleted.
NoCall == [pc |-> "idle", op |-> "none", b |-> "-", conn |-> 0, todo |-> {}]
ApiIdle == api = NoCall
\* No agent process is modelled.
AgentIdle == agent = [pc |-> "off"]
\* No session token and no debug log entry is modelled.
MemIdle == mem = [sessions |-> <<>>]
MoreIdle == ApiIdle /\ AgentIdle /\ MemIdle

SideIdle == PollIdle /\ NotifIdle /\ MoreIdle

\* ------------------------------------------------------------------------
\* Python dict helpers
\* ------------------------------------------------------------------------
EmptyDict == [k \in {} |-> 0]
DictSet(d, k, v) == [x \in (DOMAIN d) \cup {k} |-> IF x = k THEN v ELSE d[x]]
DictPop(d, k) == [x \in (DOMAIN d) \ {k} |-> d[x]]
DictGet(d, k, default) == IF k \in DOMAIN d THEN d[k] ELSE default
DictValues(d) == {d[k] : k \in DOMAIN d}

\* ------------------------------------------------------------------------
\* BridgeManager
\* ------------------------------------------------------------------------
\* get_bridge: self.bridges.get(bridge_id)
GetBridge(br, b) ==
    IF \E p \in br : p[1] = b
    THEN (CHOOSE p \in br : p[1] = b)[2]
    ELSE NoConn

\* register: self.bridges[bridge_id] = conn
Register(br, b, h) == {p \in br : p[1] # b} \cup {<<b, h>>}

\* unregister: self.bridges.pop(bridge_id, None)
Unregister(br, b) == {p \in br : p[1] # b}

IsConnected(b) == \E p \in bridges : p[1] = b

\* store.get_bridge_by_token: the enabled config whose token matches.
GetBridgeByToken(token) ==
    IF \E b \in Bids : TokenOf[b] = token /\ enabled[b]
    THEN CHOOSE b \in Bids : TokenOf[b] = token /\ enabled[b]
    ELSE NoBridge

\* ------------------------------------------------------------------------
\* BridgeConnection
\* ------------------------------------------------------------------------
\* allocate_channel: returns the current counter and advances it, wrapping
\* past 65535 to 1.
AllocateChannel_variant(n) ==
    [channel |-> n, next |-> IF n + 1 > MaxChannel THEN 0 ELSE n + 1]

AllocateChannel(n) ==
    [channel |-> n, next |-> IF n + 1 > MaxChannel THEN 1 ELSE n + 1]

\* allocate_channel called k times in a row (results discarded).
RECURSIVE AllocateTimes(_, _)
AllocateTimes(n, k) ==
    IF k = 0 THEN n
    ELSE IF k >= MaxChannel THEN AllocateTimes(n, k - MaxChannel)
    ELSE IF n + k > MaxChannel THEN n + k - MaxChannel
    ELSE n + k

\* ------------------------------------------------------------------------
\* First frame on /ws/bridge
\* ------------------------------------------------------------------------
AuthFrames ==
    {[kind |-> "bytes"],
     [kind |-> "text", json |-> "invalid"],
     [kind |-> "text", json |-> "array"],
     [kind |-> "text", json |-> "object", obj |-> [type |-> "ping"]],
     [kind |-> "text", json |-> "object", obj |-> [name |-> "agent"]],
     [kind |-> "text", json |-> "object", obj |-> [type |-> "auth"]]}
    \cup {[kind |-> "text", json |-> "object",
           obj |-> [type |-> "auth", token |-> t]] : t \in {"t1", "t2", "bad"}}

\* What the handler does with the first frame (bridge_ws, step 1).
\*   "crash"      receive_text or msg.get raised: the generic except clause
\*   "bad_json"   json.loads raised JSONDecodeError
\*   "not_auth"   msg.get("type") != "auth"
\*   "bad_token"  the store has no config for the token
\*   "ok"         authenticated
AuthOutcome(f) ==
    IF f.kind # "text" THEN "crash"
    ELSE IF f.json = "invalid" THEN "bad_json"
    ELSE IF f.json # "object" THEN "crash"
    ELSE IF DictGet(f.obj, "type", "") # "auth" THEN "not_auth"
    ELSE IF GetBridgeByToken(DictGet(f.obj, "token", "")) = NoBridge
         THEN "bad_token"
    ELSE "ok"

\* A handler that registers without unregistering the connection it found.
AuthUnregister_skipped(br, b, ex) == br

\* The unregister of the replaced connection (bridge_ws, "if existing:").
AuthUnregister(br, b, ex) == IF ex # NoConn THEN Unregister(br, b) ELSE br

\* ------------------------------------------------------------------------
\* Initial state: nothing connected
\* ------------------------------------------------------------------------
BridgeIdle ==
    /\ pc = [h \in Handlers |-> "idle"]
    /\ bridge_id = [h \in Handlers |-> NoBridge]
    /\ existing = [h \in Handlers |-> NoConn]
    /\ close_snap = [h \in Handlers |-> {}]
    /\ close_todo = [h \in Handlers |-> {}]
    /\ agent_open = [h \in Handlers |-> FALSE]
    /\ ws_sent = [h \in Handlers |-> {}]
    /\ ws_close = [h \in Handlers |-> NoCode]
    /\ enabled = [b \in Bids |-> TRUE]
    /\ bridges = {}
    /\ terminal_relays = [h \in Handlers |-> EmptyDict]
    /\ next_channel = [h \in Handlers |-> 1]
    /\ pending = [h \in Handlers |-> {}]
    /\ sessions = [h \in Handlers |-> "unset"]
    /\ term_pc = [w \in UserWS |-> "new"]
    /\ term_conn = [w \in UserWS |-> NoConn]
    /\ term_channel = [w \in UserWS |-> 0]
    /\ user_close = [w \in UserWS |-> NoCode]
    /\ churn_count = 0
    /\ req_pc = [r \in Requests |-> "idle"]
    /\ req_conn = [r \in Requests |-> NoConn]
    /\ fut = [r \in Requests |-> "none"]
    /\ fut_result = [r \in Requests |-> NoMsg]
    /\ req_result = [r \in Requests |-> NoMsg]
    /\ ev = NoEvent

Init == BridgeIdle /\ PtyUnused /\ SideIdle

\* ------------------------------------------------------------------------
\* bridge_ws
\* ------------------------------------------------------------------------
\* The agent opens a WebSocket; the handler accepts it and waits for the
\* first frame.
Accept(h) ==
    /\ UNCHANGED <<reqVars, ptyVars, sideVars>>
    /\ pc[h] = "idle"
    /\ \A g \in Handlers : g < h => pc[g] # "idle"   \* numbered as they arrive
    /\ pc' = [pc EXCEPT ![h] = "wait_auth"]
    /\ agent_open' = [agent_open EXCEPT ![h] = TRUE]
    /\ ev' = NoEvent
    /\ UNCHANGED <<bridge_id, existing, close_snap, close_todo, ws_sent,
                   ws_close, enabled, bridges, terminal_relays, next_channel,
                   pending, sessions, termVars>>

\* user_ws.close(code) on a user socket: a socket that is already closed
\* raises, which the callers swallow.
CloseUser(uc, w, code) == IF uc[w] = NoCode THEN [uc EXCEPT ![w] = code] ELSE uc

\* websocket.close(code) on the agent socket, same rule.
CloseAgent(wc, h, code) == IF wc[h] = NoCode THEN [wc EXCEPT ![h] = code] ELSE wc

\* Lines 64-74 once existing.close_all_terminals() has returned: clear the
\* replaced connection's relays, unregister it, register the new connection
\* and send auth_ok.
FinishAuth(h, b, ex, snap) ==
    LET br1 == AuthUnregister(bridges, b, ex)
    IN  /\ bridges' = Register(br1, b, h)
        /\ terminal_relays' =
              [c \in Handlers |->
                  IF c = h \/ c = ex THEN EmptyDict ELSE terminal_relays[c]]
        /\ next_channel' = [next_channel EXCEPT ![h] = 1]
        /\ pending' = [pending EXCEPT ![h] = {}]
        /\ sessions' = [sessions EXCEPT ![h] = "unset"]
        /\ ws_sent' = [ws_sent EXCEPT ![h] = @ \cup {"auth_ok"}]
        /\ pc' = [pc EXCEPT ![h] = "loop"]
        /\ bridge_id' = [bridge_id EXCEPT ![h] = b]
        /\ existing' = [existing EXCEPT ![h] = ex]
        /\ close_snap' = [close_snap EXCEPT ![h] = {}]
        /\ close_todo' = [close_todo EXCEPT ![h] = {}]
        /\ ev' = [op |-> "register", h |-> h, b |-> b, existing |-> ex,
                  overwritten |-> GetBridge(br1, b), snapshot |-> snap]

\* The handler receives the first frame (lines 31-74).
AuthReceive(h, f) ==
    /\ UNCHANGED <<reqVars, ptyVars, sideVars>>
    /\ pc[h] = "wait_auth"
    /\ agent_open[h]
    /\ LET out == AuthOutcome(f) IN
       \/ /\ out = "crash"
          \* finally: conn and bridge_id are None; websocket.close()
          /\ pc' = [pc EXCEPT ![h] = "closed"]
          /\ ws_close' = CloseAgent(ws_close, h, CloseDefault)
          /\ ev' = [op |-> "auth", h |-> h, frame |-> f, before |-> bridges]
          /\ UNCHANGED <<bridge_id, existing, close_snap, close_todo,
                         agent_open, ws_sent, enabled, bridges,
                         terminal_relays, next_channel, pending, sessions,
                         termVars>>
       \/ /\ out \in {"bad_json", "not_auth", "bad_token"}
          /\ pc' = [pc EXCEPT ![h] = "closed"]
          /\ ws_sent' = [ws_sent EXCEPT ![h] = @ \cup {"auth_error"}]
          /\ ws_close' = CloseAgent(ws_close, h,
                            IF out = "bad_token" THEN CloseInvalidToken
                            ELSE CloseInvalidAuth)
          /\ ev' = [op |-> "auth", h |-> h, frame |-> f, before |-> bridges]
          /\ UNCHANGED <<bridge_id, existing, close_snap, close_todo,
                         agent_open, enabled, bridges, terminal_relays,
                         next_channel, pending, sessions, termVars>>
       \/ /\ out = "ok"
          /\ LET b == GetBridgeByToken(DictGet(f.obj, "token", ""))
                 ex == GetBridge(bridges, b)
                 snap == IF ex = NoConn THEN {}
                         ELSE DictValues(terminal_relays[ex])
             IN  IF snap = {}
                 THEN /\ FinishAuth(h, b, ex, {})
                      /\ UNCHANGED <<agent_open, ws_close, enabled, termVars>>
                 ELSE \* suspended in existing.close_all_terminals()
                      /\ pc' = [pc EXCEPT ![h] = "auth_closing"]
                      /\ bridge_id' = [bridge_id EXCEPT ![h] = b]
                      /\ existing' = [existing EXCEPT ![h] = ex]
                      /\ close_snap' = [close_snap EXCEPT ![h] = snap]
                      /\ close_todo' = [close_todo EXCEPT ![h] = snap]
                      /\ ev' = NoEvent
                      /\ UNCHANGED <<agent_open, ws_sent, ws_close, enabled,
                                     bridges, terminal_relays, next_channel,
                                     pending, sessions, termVars>>

\* existing.close_all_terminals() closes the next user socket of its
\* snapshot; after the last one the handler goes on to register.
AuthCloseNext(h) ==
    /\ UNCHANGED <<reqVars, ptyVars, sideVars>>
    /\ pc[h] = "auth_closing"
    /\ \E w \in close_todo[h] :
         /\ user_close' = CloseUser(user_close, w, CloseBridgeGone)
         /\ IF close_todo[h] = {w}
            THEN /\ FinishAuth(h, bridge_id[h], existing[h], close_snap[h])
                 /\ UNCHANGED <<agent_open, ws_close, enabled, term_pc,
                                term_conn, term_channel, churn_count>>
            ELSE /\ close_todo' = [close_todo EXCEPT ![h] = @ \ {w}]
                 /\ ev' = NoEvent
                 /\ UNCHANGED <<pc, bridge_id, existing, close_snap,
                                agent_open, ws_sent, ws_close, enabled,
                                bridges, terminal_relays, next_channel,
                                pending, sessions, term_pc, term_conn,
                                term_channel, churn_count>>

\* The agent closes its end of the socket.
AgentDisconnect(h) ==
    /\ UNCHANGED <<reqVars, ptyVars, sideVars>>
    /\ pc[h] \in {"wait_auth", "auth_closing", "loop"}
    /\ agent_open[h]
    /\ agent_open' = [agent_open EXCEPT ![h] = FALSE]
    /\ ev' = NoEvent
    /\ UNCHANGED <<pc, bridge_id, existing, close_snap, close_todo, ws_sent,
                   ws_close, enabled, bridges, terminal_relays, next_channel,
                   pending, sessions, termVars>>

\* The rest of the finally block once conn.close_all_terminals() has
\* returned: clear the relays, bm.unregister(bridge_id), websocket.close().
FinishFinally(h) ==
    /\ terminal_relays' = [terminal_relays EXCEPT ![h] = EmptyDict]
    /\ bridges' = Unregister(bridges, bridge_id[h])
    /\ ws_close' = CloseAgent(ws_close, h, CloseDefault)
    /\ pc' = [pc EXCEPT ![h] = "closed"]
    /\ close_snap' = [close_snap EXCEPT ![h] = {}]
    /\ close_todo' = [close_todo EXCEPT ![h] = {}]
    /\ ev' = [op |-> "cleanup", h |-> h, b |-> bridge_id[h]]

\* The finally block of a handler that has registered a connection
\* (lines 144-152).
Finally(h) ==
    LET snap == DictValues(terminal_relays[h])
    IN  IF snap = {}
        THEN /\ FinishFinally(h)
             /\ UNCHANGED <<bridge_id, existing, agent_open, ws_sent, enabled,
                            next_channel, pending, sessions, termVars>>
        ELSE /\ pc' = [pc EXCEPT ![h] = "fin_closing"]
             /\ close_snap' = [close_snap EXCEPT ![h] = snap]
             /\ close_todo' = [close_todo EXCEPT ![h] = snap]
             /\ ev' = NoEvent
             /\ UNCHANGED <<bridge_id, existing, agent_open, ws_sent,
                            ws_close, enabled, bridges, terminal_relays,
                            next_channel, pending, sessions, termVars>>

\* websocket.receive() or receive_text() reports the disconnect
\* (lines 80-81 and 140-141).
HandleDisconnect(h) ==
    /\ UNCHANGED <<reqVars, ptyVars, sideVars>>
    /\ ~agent_open[h] \/ ws_close[h] # NoCode
    /\ \/ /\ pc[h] = "wait_auth"
          \* finally: conn and bridge_id are None
          /\ pc' = [pc EXCEPT ![h] = "closed"]
          /\ ws_close' = CloseAgent(ws_close, h, CloseDefault)
          /\ ev' = NoEvent
          /\ UNCHANGED <<bridge_id, existing, close_snap, close_todo,
                         agent_open, ws_sent, enabled, bridges,
                         terminal_relays, next_channel, pending, sessions,
                         termVars>>
       \/ /\ pc[h] = "loop"
          /\ Finally(h)

\* conn.close_all_terminals() of the finally block closes the next user
\* socket of its snapshot.
FinCloseNext(h) ==
    /\ UNCHANGED <<reqVars, ptyVars, sideVars>>
    /\ pc[h] = "fin_closing"
    /\ \E w \in close_todo[h] :
         /\ user_close' = CloseUser(user_close, w, CloseBridgeGone)
         /\ IF close_todo[h] = {w}
            THEN /\ FinishFinally(h)
                 /\ UNCHANGED <<bridge_id, existing, agent_open, ws_sent,
                                enabled, next_channel, pending, sessions,
                                term_pc, term_conn, term_channel, churn_count>>
            ELSE /\ close_todo' = [close_todo EXCEPT ![h] = @ \ {w}]
                 /\ ev' = NoEvent
                 /\ UNCHANGED <<pc, bridge_id, existing, close_snap,
                                agent_open, ws_sent, ws_close, enabled,
                                bridges, terminal_relays, next_channel,
                                pending, sessions, term_pc, term_conn,
                                term_channel, churn_count>>

\* Response types that resolve a pending request.
RespTypes == {"attach_ok", "attach_error", "cmd_result"}

\* resolve_pending(req_id, result): the future of req_id is resolved when
\* req_id is pending on the connection and its future is not done.
ResolvePending(pend, f, req_id) == req_id \in pend /\ f[req_id] = "pending"

\* An id that is a JSON array or object: a dict cannot look it up.
UnhashableId == -1
Unhashable(req_id) == req_id = UnhashableId

\* The main loop handles a text frame (lines 97-138).
\*   json = "empty"    message["text"] is empty: the frame is skipped
\*   json = "invalid"  json.loads raises JSONDecodeError: continue
\*   json = "array"    valid JSON that is no object: msg.get raises, the
\*                     generic except clause ends the loop and the finally
\*                     block runs
\* A response whose id is unhashable makes self._pending.get raise
\* TypeError, with the same end.
HandleText(h, m) ==
    /\ UNCHANGED <<ptyVars, sideVars>>
    /\ pc[h] = "loop"
    /\ agent_open[h]
    /\ IF m.json \in {"empty", "invalid"}
       THEN /\ ev' = [op |-> "text"]
            /\ UNCHANGED <<bridgeVars, termVars, reqVars>>
       ELSE IF m.json # "object"
       THEN /\ Finally(h)
            /\ UNCHANGED reqVars
       ELSE LET msg_type == DictGet(m.obj, "type", "") IN
            IF msg_type = "sessions"
            THEN /\ sessions' = [sessions EXCEPT ![h] =
                                    DictGet(m.obj, "sessions", "empty")]
                 /\ ev' = [op |-> "text"]
                 /\ UNCHANGED <<pc, bridge_id, existing, close_snap,
                                close_todo, agent_open, ws_sent, ws_close,
                                enabled, bridges, terminal_relays,
                                next_channel, pending, termVars, reqVars>>
            ELSE IF msg_type \in RespTypes
            THEN LET req_id == DictGet(m.obj, "id", 0) IN
                 IF Unhashable(req_id)
                 THEN /\ Finally(h)
                      /\ UNCHANGED reqVars
                 ELSE
                 /\ IF req_id # 0 /\ ResolvePending(pending[h], fut, req_id)
                    THEN /\ fut' = [fut EXCEPT ![req_id] = "done"]
                         /\ fut_result' = [fut_result EXCEPT ![req_id] = m.obj]
                    ELSE UNCHANGED <<fut, fut_result>>
                 /\ ev' = [op |-> "text"]
                 /\ UNCHANGED <<bridgeVars, termVars, req_pc, req_conn,
                                req_result>>
            ELSE IF msg_type = "detached"
            THEN LET channel_id == DictGet(m.obj, "channel_id", 0) IN
                 /\ IF channel_id \in DOMAIN terminal_relays[h]
                    THEN /\ user_close' =
                               CloseUser(user_close,
                                         terminal_relays[h][channel_id],
                                         CloseDetached)
                         /\ terminal_relays' =
                               [terminal_relays EXCEPT ![h] =
                                   DictPop(@, channel_id)]
                    ELSE UNCHANGED <<user_close, terminal_relays>>
                 /\ ev' = [op |-> "text"]
                 /\ UNCHANGED <<pc, bridge_id, existing, close_snap,
                                close_todo, agent_open, ws_sent, ws_close,
                                enabled, bridges, next_channel, pending,
                                sessions, term_pc, term_conn, term_channel,
                                churn_count, reqVars>>
            ELSE /\ ev' = [op |-> "text"]
                 /\ UNCHANGED <<bridgeVars, termVars, reqVars>>

\* ------------------------------------------------------------------------
\* Browser terminals on a bridge container
\* ------------------------------------------------------------------------
\* A terminal looks up the connection of bridge b and allocates a channel.
TermAllocate(w, b) ==
    /\ UNCHANGED <<reqVars, ptyVars, sideVars>>
    /\ term_pc[w] = "new"
    /\ \A v \in UserWS : v < w => term_pc[v] # "new"  \* numbered as they open
    /\ GetBridge(bridges, b) # NoConn
    /\ LET c == GetBridge(bridges, b)
           a == AllocateChannel(next_channel[c])
       IN  /\ next_channel' = [next_channel EXCEPT ![c] = a.next]
           /\ term_conn' = [term_conn EXCEPT ![w] = c]
           /\ term_channel' = [term_channel EXCEPT ![w] = a.channel]
           /\ ev' = [op |-> "allocate", conn |-> c, channel |-> a.channel,
                     in_use |-> DOMAIN terminal_relays[c]]
    /\ term_pc' = [term_pc EXCEPT ![w] = "allocated"]
    /\ UNCHANGED <<pc, bridge_id, existing, close_snap, close_todo,
                   agent_open, ws_sent, ws_close, enabled, bridges,
                   terminal_relays, pending, sessions, user_close,
                   churn_count>>

\* register_terminal(channel_id, user_ws)
TermRegister(w) ==
    /\ UNCHANGED <<reqVars, ptyVars, sideVars>>
    /\ term_pc[w] = "allocated"
    /\ terminal_relays' =
          [terminal_relays EXCEPT ![term_conn[w]] =
              DictSet(@, term_channel[w], w)]
    /\ term_pc' = [term_pc EXCEPT ![w] = "attached"]
    /\ ev' = NoEvent
    /\ UNCHANGED <<pc, bridge_id, existing, close_snap, close_todo,
                   agent_open, ws_sent, ws_close, enabled, bridges,
                   next_channel, pending, sessions, term_conn, term_channel,
                   user_close, churn_count>>

\* unregister_terminal(channel_id) when the terminal ends.
TermUnregister(w) ==
    /\ UNCHANGED <<reqVars, ptyVars, sideVars>>
    /\ term_pc[w] = "attached"
    /\ terminal_relays' =
          [terminal_relays EXCEPT ![term_conn[w]] =
              DictPop(@, term_channel[w])]
    /\ term_pc' = [term_pc EXCEPT ![w] = "closed"]
    /\ ev' = NoEvent
    /\ UNCHANGED <<pc, bridge_id, existing, close_snap, close_todo,
                   agent_open, ws_sent, ws_close, enabled, bridges,
                   next_channel, pending, sessions, term_conn, term_channel,
                   user_close, churn_count>>

\* ------------------------------------------------------------------------
\* Spec: the /ws/bridge handlers and the terminals attached through them
\* ------------------------------------------------------------------------
\* Terminals of Spec.
BridgeTerms == {w \in UserWS : w <= MaxBridgeTerms}

Next ==
    \/ \E h \in Handlers : Accept(h)
    \/ \E h \in Handlers : \E f \in AuthFrames : AuthReceive(h, f)
    \/ \E h \in Handlers : AuthCloseNext(h)
    \/ \E h \in Handlers : AgentDisconnect(h)
    \/ \E h \in Handlers : HandleDisconnect(h)
    \/ \E h \in Handlers : FinCloseNext(h)
    \/ \E w \in BridgeTerms : \E b \in Bids : TermAllocate(w, b)
    \/ \E w \in BridgeTerms : TermRegister(w)
    \/ \E w \in BridgeTerms : TermUnregister(w)

Spec == Init /\ [][Next]_vars

\* ------------------------------------------------------------------------
\* Claims on the /ws/bridge handlers (checked under Spec)
\* ------------------------------------------------------------------------
\* C1: BridgeManager.bridges holds at most one connection per bridge_id,
\* and a handler that authenticates for a bridge_id that already has a
\* connection has closed the user sockets relayed by that connection and
\* unregistered its entry by the time it registers its own: register()
\* overwrites no entry, the replaced connection is no longer in bridges and
\* relays nothing, and every user socket it relayed when the handler started
\* closing has been closed.
C1_EvictBeforeRegister ==
    /\ \A b \in Bids : Cardinality({p \in bridges : p[1] = b}) <= 1
    /\ ev.op = "register" =>
          /\ ev.overwritten = NoConn
          /\ <<ev.b, ev.h>> \in bridges
          /\ ev.existing # NoConn =>
                /\ <<ev.b, ev.existing>> \notin bridges
                /\ terminal_relays[ev.existing] = EmptyDict
                /\ \A w \in ev.snapshot : user_close[w] # NoCode

\* C1 witness: a handler has just replaced a connection that relayed a
\* browser terminal.
C1_Witness ==
    /\ ev.op = "register"
    /\ ev.existing # NoConn
    /\ ev.snapshot # {}

\* No handler of bridge b is in the middle of its authentication or of its
\* cleanup, and none has a disconnect still to notice.
Quiescent(b) ==
    \A h \in Handlers :
        bridge_id[h] = b => (pc[h] = "closed" \/ (pc[h] = "loop" /\ agent_open[h]))

\* C2: after any interleaving of connects, reconnects and disconnects, a
\* bridge_id is in BridgeManager.bridges exactly when an authenticated agent
\* WebSocket for it is still open, and the entry is that of an open one.
C2_PresentIffAgentOpen ==
    \A b \in Bids :
        Quiescent(b) =>
            /\ IsConnected(b) <=>
                  (\E h \in Handlers :
                      bridge_id[h] = b /\ pc[h] = "loop" /\ agent_open[h])
            /\ IsConnected(b) => pc[GetBridge(bridges, b)] = "loop"

\* A first text frame that is not valid JSON or not of type auth.
IsProtocolViolation(f) ==
    /\ f.kind = "text"
    /\ \/ f.json = "invalid"
       \/ f.json # "object"
       \/ DictGet(f.obj, "type", "") # "auth"

\* A first text frame of type auth whose token matches no bridge config.
IsUnknownToken(f) ==
    /\ f.kind = "text"
    /\ f.json = "object"
    /\ DictGet(f.obj, "type", "") = "auth"
    /\ \A b \in Bids : TokenOf[b] # DictGet(f.obj, "token", "")

\* C7: a connection is registered only by a handler that has sent auth_ok;
\* a first frame that is not valid JSON or not of type auth is answered
\* with auth_error and close code 4000, an unknown token with auth_error
\* and close code 4001, and in these cases bridges is unchanged and no
\* auth_ok is sent.
C7_AuthRejects ==
    /\ \A p \in bridges : "auth_ok" \in ws_sent[p[2]] /\ bridge_id[p[2]] = p[1]
    /\ (ev.op = "auth" /\ IsProtocolViolation(ev.frame)) =>
          /\ ws_sent[ev.h] = {"auth_error"}
          /\ ws_close[ev.h] = CloseInvalidAuth
          /\ bridges = ev.before
    /\ (ev.op = "auth" /\ IsUnknownToken(ev.frame)) =>
          /\ ws_sent[ev.h] = {"auth_error"}
          /\ ws_close[ev.h] = CloseInvalidToken
          /\ bridges = ev.before

\* ------------------------------------------------------------------------
\* SpecChan: one registered connection, its channels and the agent's frames
\* ------------------------------------------------------------------------
\* The agent of bridge b1 has connected on socket 1 and authenticated
\* (Accept(1), then AuthReceive with the token of b1).
InitChan ==
    /\ pc = [h \in Handlers |-> IF h = 1 THEN "loop" ELSE "idle"]
    /\ bridge_id = [h \in Handlers |-> IF h = 1 THEN "b1" ELSE NoBridge]
    /\ existing = [h \in Handlers |-> NoConn]
    /\ close_snap = [h \in Handlers |-> {}]
    /\ close_todo = [h \in Handlers |-> {}]
    /\ agent_open = [h \in Handlers |-> h = 1]
    /\ ws_sent = [h \in Handlers |-> IF h = 1 THEN {"auth_ok"} ELSE {}]
    /\ ws_close = [h \in Handlers |-> NoCode]
    /\ enabled = [b \in Bids |-> TRUE]
    /\ bridges = {<<"b1", 1>>}
    /\ terminal_relays = [h \in Handlers |-> EmptyDict]
    /\ next_channel = [h \in Handlers |-> 1]
    /\ pending = [h \in Handlers |-> {}]
    /\ sessions = [h \in Handlers |-> "unset"]
    /\ term_pc = [w \in UserWS |-> "new"]
    /\ term_conn = [w \in UserWS |-> NoConn]
    /\ term_channel = [w \in UserWS |-> 0]
    /\ user_close = [w \in UserWS |-> NoCode]
    /\ churn_count = 0
    /\ req_pc = [r \in Requests |-> "idle"]
    /\ req_conn = [r \in Requests |-> NoConn]
    /\ fut = [r \in Requests |-> "none"]
    /\ fut_result = [r \in Requests |-> NoMsg]
    /\ req_result = [r \in Requests |-> NoMsg]
    /\ ev = NoEvent
    /\ PtyUnused
    /\ SideIdle

\* Calls of allocate_channel in one run of terminals that open and close
\* again: one short of a full cycle of the counter.
ChurnCalls == MaxChannel - 1

\* ChurnCalls terminals open on connection c and close again: each calls
\* allocate_channel, and none of them is left in the terminals map.
Churn(c) ==
    /\ UNCHANGED <<reqVars, ptyVars, sideVars>>
    /\ pc[c] = "loop"
    /\ churn_count < MaxChurn
    /\ churn_count' = churn_count + 1
    /\ next_channel' =
          [next_channel EXCEPT ![c] = AllocateTimes(@, ChurnCalls)]
    /\ ev' = NoEvent
    /\ UNCHANGED <<pc, bridge_id, existing, close_snap, close_todo,
                   agent_open, ws_sent, ws_close, enabled, bridges,
                   terminal_relays, pending, sessions, term_pc, term_conn,
                   term_channel, user_close>>

\* Binary frames the agent sends: bytes 0..255; the first two are the
\* channel header.
BinaryFrames ==
    {<<>>, <<7>>, <<0, 1>>, <<0, 1, 7>>, <<0, 2, 8>>, <<1, 0, 9>>,
     <<255, 255, 5>>}

\* struct.unpack(">H", data[:2])[0]
UnpackChannel(data) == data[1] * 256 + data[2]

\* user_ws.send_bytes raises on a socket that is closed.
SendRaises(w) == user_close[w] # NoCode \/ term_pc[w] = "closed"

\* The main loop handles a binary frame (lines 83-95).
HandleBinary(h, data) ==
    /\ UNCHANGED <<reqVars, ptyVars, sideVars>>
    /\ pc[h] = "loop"
    /\ agent_open[h]
    /\ IF Len(data) < 2
       THEN /\ ev' = [op |-> "binary", h |-> h, data |-> data,
                      before |-> terminal_relays[h], sent |-> {}]
            /\ UNCHANGED terminal_relays
       ELSE LET channel_id == UnpackChannel(data)
                payload == SubSeq(data, 3, Len(data))
                user_ws == DictGet(terminal_relays[h], channel_id, 0)
            IN  IF user_ws = 0
                THEN /\ ev' = [op |-> "binary", h |-> h, data |-> data,
                               before |-> terminal_relays[h], sent |-> {}]
                     /\ UNCHANGED terminal_relays
                ELSE /\ ev' = [op |-> "binary", h |-> h, data |-> data,
                               before |-> terminal_relays[h],
                               sent |-> {<<user_ws, payload>>}]
                     /\ terminal_relays' =
                           IF SendRaises(user_ws)
                           THEN [terminal_relays EXCEPT ![h] =
                                    DictPop(@, channel_id)]
                           ELSE terminal_relays
    /\ UNCHANGED <<pc, bridge_id, existing, close_snap, close_todo,
                   agent_open, ws_sent, ws_close, enabled, bridges,
                   next_channel, pending, sessions, termVars>>

\* Text frames of the agent in SpecChan: detached messages.
ChanTexts ==
    {[json |-> "object", obj |-> [type |-> "detached", channel_id |-> ch]] :
        ch \in {1, 2}}
    \cup {[json |-> "object", obj |-> [type |-> "detached"]]}

NextChan ==
    \/ \E w \in UserWS : TermAllocate(w, "b1")
    \/ \E w \in UserWS : TermRegister(w)
    \/ \E w \in UserWS : TermUnregister(w)
    \/ Churn(1)
    \/ \E data \in BinaryFrames : HandleBinary(1, data)
    \/ \E m \in ChanTexts : HandleText(1, m)

SpecChan == InitChan /\ [][NextChan]_vars

\* ------------------------------------------------------------------------
\* Claims on channels (checked under SpecChan)
\* ------------------------------------------------------------------------
\* C3: two browser terminals attached through the same connection at the
\* same time hold distinct channel ids; the payload of a binary frame with
\* header c is sent, without the header, to the user socket registered
\* under c and to no other, and a frame for a channel with no registered
\* socket is dropped.
C3_DistinctChannelsAndRouting ==
    /\ \A w1, w2 \in UserWS :
          (/\ w1 # w2
           /\ term_pc[w1] = "attached"
           /\ term_pc[w2] = "attached"
           /\ term_conn[w1] = term_conn[w2])
          => term_channel[w1] # term_channel[w2]
    /\ (ev.op = "binary" /\ Len(ev.data) >= 2) =>
          LET c == ev.data[1] * 256 + ev.data[2]
              payload == [i \in 1..(Len(ev.data) - 2) |-> ev.data[i + 2]]
          IN  ev.sent = IF c \in DOMAIN ev.before
                        THEN {<<ev.before[c], payload>>}
                        ELSE {}

\* The routing half of C3 on its own.
RoutingByHeader ==
    (ev.op = "binary" /\ Len(ev.data) >= 2) =>
        LET c == ev.data[1] * 256 + ev.data[2]
            payload == [i \in 1..(Len(ev.data) - 2) |-> ev.data[i + 2]]
        IN  ev.sent = IF c \in DOMAIN ev.before
                      THEN {<<ev.before[c], payload>>}
                      ELSE {}

\* C4: allocate_channel never returns a channel id that is a key of the
\* terminals map at the time of the call.
C4_AllocateSkipsInUse ==
    ev.op = "allocate" => ev.channel \notin ev.in_use

\* ------------------------------------------------------------------------
\* Requests to the agent: BridgeConnection.request (lines 64-74)
\*
\* Call r uses the id r: the code takes the first 8 hex digits of a fresh
\* uuid4 and the model takes these ids to be pairwise different.
\* ------------------------------------------------------------------------

\* finally: self._pending.pop(req_id, None) (lines 73-74)
RequestFinally_leak(pend, req_id) == pend

RequestFinally(pend, req_id) == pend \ {req_id}

\* A caller (tmux_manager._run_cmd) takes the registered connection of
\* bridge b and calls request: the future is stored under the id and the
\* message is handed to send_json (lines 65-70).
RequestStart(r, b) ==
    /\ UNCHANGED <<ptyVars, sideVars>>
    /\ req_pc[r] = "idle"
    /\ \A q \in Requests : q < r => req_pc[q] # "idle"
    /\ GetBridge(bridges, b) # NoConn
    /\ LET c == GetBridge(bridges, b) IN
       /\ req_conn' = [req_conn EXCEPT ![r] = c]
       /\ pending' = [pending EXCEPT ![c] = @ \cup {r}]
       /\ fut' = [fut EXCEPT ![r] = "pending"]
       /\ req_pc' = [req_pc EXCEPT ![r] = "sending"]
       /\ ev' = [op |-> "request"]
    /\ UNCHANGED <<pc, bridge_id, existing, close_snap, close_todo,
                   agent_open, ws_sent, ws_close, enabled, bridges,
                   terminal_relays, next_channel, sessions, termVars,
                   fut_result, req_result>>

\* await self.send_json(msg) completes (line 70).  It raises when the
\* server has closed the socket, and may raise once the agent is gone; the
\* finally clause then removes the id and the call fails.
RequestSendDone(r, raises) ==
    /\ UNCHANGED <<ptyVars, sideVars>>
    /\ req_pc[r] = "sending"
    /\ LET c == req_conn[r] IN
       /\ raises => (ws_close[c] # NoCode \/ ~agent_open[c])
       /\ ~raises => ws_close[c] = NoCode
       /\ IF raises
          THEN /\ pending' = [pending EXCEPT ![c] = RequestFinally(@, r)]
               /\ req_pc' = [req_pc EXCEPT ![r] = "send_error"]
          ELSE /\ req_pc' = [req_pc EXCEPT ![r] = "waiting"]
               /\ UNCHANGED pending
    /\ ev' = [op |-> "request"]
    /\ UNCHANGED <<pc, bridge_id, existing, close_snap, close_todo,
                   agent_open, ws_sent, ws_close, enabled, bridges,
                   terminal_relays, next_channel, sessions, termVars,
                   req_conn, fut, fut_result, req_result>>

\* asyncio.wait_for(fut, timeout=10.0) returns the future's result
\* (line 72) and the finally clause removes the id.
RequestReturn(r) ==
    /\ UNCHANGED <<ptyVars, sideVars>>
    /\ req_pc[r] = "waiting"
    /\ fut[r] = "done"
    /\ req_result' = [req_result EXCEPT ![r] = fut_result[r]]
    /\ pending' = [pending EXCEPT ![req_conn[r]] = RequestFinally(@, r)]
    /\ req_pc' = [req_pc EXCEPT ![r] = "returned"]
    /\ ev' = [op |-> "request"]
    /\ UNCHANGED <<pc, bridge_id, existing, close_snap, close_todo,
                   agent_open, ws_sent, ws_close, enabled, bridges,
                   terminal_relays, next_channel, sessions, termVars,
                   req_conn, fut, fut_result>>

\* The 10 seconds pass with the future unresolved: wait_for cancels the
\* future and raises TimeoutError; the finally clause removes the id.
RequestTimeout(r) ==
    /\ UNCHANGED <<ptyVars, sideVars>>
    /\ req_pc[r] = "waiting"
    /\ fut[r] = "pending"
    /\ fut' = [fut EXCEPT ![r] = "cancelled"]
    /\ pending' = [pending EXCEPT ![req_conn[r]] = RequestFinally(@, r)]
    /\ req_pc' = [req_pc EXCEPT ![r] = "timeout"]
    /\ ev' = [op |-> "request"]
    /\ UNCHANGED <<pc, bridge_id, existing, close_snap, close_todo,
                   agent_open, ws_sent, ws_close, enabled, bridges,
                   terminal_relays, next_channel, sessions, termVars,
                   req_conn, fut_result, req_result>>

\* An id no request uses.
UnknownId == NumRequests + 1

\* Text frames of the agent in SpecReq.
ReqTexts ==
    {[json |-> j] : j \in {"invalid", "array"}}
    \cup {[json |-> "object", obj |-> [type |-> "cmd_result", id |-> i,
                                       output |-> "out"]] :
            i \in Requests \cup {UnknownId}}
    \cup {[json |-> "object", obj |-> [type |-> t, id |-> 1]] :
            t \in {"attach_ok", "attach_error"}}
    \cup {[json |-> "object", obj |-> [type |-> "cmd_result", output |-> "out"]],
          [json |-> "object", obj |-> [type |-> "sessions", sessions |-> "s1"]],
          [json |-> "object", obj |-> [type |-> "pong"]]}

\* First frames of the agents in SpecReq: the token of b1 or a wrong one.
ReqAuthFrames ==
    {f \in AuthFrames :
        /\ f.kind = "text"
        /\ f.json = "object"
        /\ DictGet(f.obj, "token", "") \in {"t1", "bad"}}

ReqConns == {h \in Handlers : h <= MaxReqConns}

NextReq ==
    \/ \E h \in ReqConns : Accept(h)
    \/ \E h \in ReqConns : \E f \in ReqAuthFrames : AuthReceive(h, f)
    \/ \E h \in ReqConns : AgentDisconnect(h)
    \/ \E h \in ReqConns : HandleDisconnect(h)
    \/ \E h \in ReqConns : \E m \in ReqTexts : HandleText(h, m)
    \/ \E r \in Requests : \E b \in Bids : RequestStart(r, b)
    \/ \E r \in Requests : \E raises \in BOOLEAN : RequestSendDone(r, raises)
    \/ \E r \in Requests : RequestReturn(r)
    \/ \E r \in Requests : RequestTimeout(r)

SpecReq == Init /\ [][NextReq]_vars

\* ------------------------------------------------------------------------
\* Claims checked under SpecReq
\* ------------------------------------------------------------------------

\* The calls of request in flight on connection h.
InFlight(h) ==
    {r \in Requests : req_conn[r] = h /\ req_pc[r] \in {"sending", "waiting"}}

\* The response messages that carry the id r.
ResponsesFor(r) ==
    {m.obj : m \in {x \in ReqTexts :
                       /\ x.json = "object"
                       /\ DictGet(x.obj, "type", "") \in RespTypes
                       /\ DictGet(x.obj, "id", 0) = r}}

\* C5: a request is recorded as pending under its id while the call is in
\* flight; the call returns the whole response message (attach_ok,
\* attach_error or cmd_result) that carries its id; a call that gets no
\* response within the timeout fails; the pending entry is gone once the
\* call has returned or failed.
C5_RequestCorrelation ==
    /\ \A h \in Handlers : pending[h] = InFlight(h)
    /\ \A r \in Requests :
          /\ req_pc[r] = "returned" => req_result[r] \in ResponsesFor(r)
          /\ req_pc[r] \in {"timeout", "send_error"} => req_result[r] = NoMsg
          /\ req_pc[r] = "timeout" => fut[r] = "cancelled"

\* One call returned its response while another one timed out, with a
\* further response for the timed-out id arriving afterwards.
C5_Witness ==
    /\ \E r \in Requests : req_pc[r] = "returned" /\ req_result[r] \in ResponsesFor(r)
    /\ \E r \in Requests :
          /\ req_pc[r] = "timeout"
          /\ fut[r] = "cancelled"

\* C6: when a connection is torn down (the agent disconnects or a newer
\* connection of the same bridge evicts it) every request pending on it is
\* failed at once: no unresolved request stays pending on a connection
\* that is finished or no longer registered.
C6_PendingFailedOnTeardown ==
    \A h \in Handlers : \A r \in pending[h] :
        fut[r] = "pending" =>
            /\ pc[h] # "done"
            /\ <<bridge_id[h], h>> \in bridges

\* ------------------------------------------------------------------------
\* Terminal proxy: browser frames (ws/terminal.py)
\*
\* The text of a frame is a sequence of tokens; ":" and "." are tokens of
\* their own, so "RESIZE:80:24" is <<"RESIZE", ":", "80", ":", "24">>.
\* "e-acute" stands for the one-character text U+00E9.
\* ------------------------------------------------------------------------
TextFrame(t) == [kind |-> "text", text |-> t]
BytesFrame(b) == [kind |-> "bytes", bytes |-> b]

\* str.startswith
StartsWith(text, prefix) ==
    Len(text) >= Len(prefix) /\ SubSeq(text, 1, Len(prefix)) = prefix

Tag(name) == <<name, ":">>

\* text.split(":", 1)[1] of a text that starts with a tag
Rest(text) == SubSeq(text, 3, Len(text))

\* int(s) succeeds
IsInt(toks) == toks \in {<<"0">>, <<"1">>, <<"80">>, <<"24">>}

\* parts = rest.split("."); int(parts[0]); int(parts[1])
PaneTarget(rest) ==
    IF Len(rest) = 3 /\ IsInt(<<rest[1]>>) /\ rest[2] = "." /\ IsInt(<<rest[3]>>)
    THEN "ok"
    ELSE IF Len(rest) = 1 /\ IsInt(rest) THEN "index_error"
    ELSE "value_error"

\* parts = text.split(":"); len(parts) == 3; int(parts[1]); int(parts[2])
ResizeArgs(text) ==
    /\ Len(text) = 5
    /\ text[4] = ":"
    /\ IsInt(<<text[3]>>)
    /\ IsInt(<<text[5]>>)

\* What the receive loop does with a text: the awaited steps it runs (tmux
\* commands, then "send_text" for a reply), whether the text is consumed,
\* and whether an exception leaves the loop.
Handled(steps) == [consumed |-> TRUE, steps |-> steps, raises |-> FALSE]
Raised == [consumed |-> TRUE, steps |-> <<>>, raises |-> TRUE]
NotHandled == [consumed |-> FALSE, steps |-> <<>>, raises |-> FALSE]

ScrollSteps(rest) ==
    IF Len(rest) >= 1 /\ rest[1] = "up" THEN <<"copy-mode", "send-keys">>
    ELSE IF Len(rest) >= 1 /\ rest[1] \in {"down", "exit"} THEN <<"send-keys">>
    ELSE <<>>

\* ws_to_pty (lines 150-365); tmux_prefix, session_name and container_id
\* are set by both callers.  The window size ioctl of RESIZE is synchronous
\* and is no step.
PtyDispatch(text, zoomed) ==
    IF StartsWith(text, Tag("RESIZE")) THEN Handled(<<>>)
    ELSE IF StartsWith(text, Tag("SELECT_WINDOW"))
    THEN Handled(IF IsInt(Rest(text)) THEN <<"select-window">> ELSE <<>>)
    ELSE IF StartsWith(text, Tag("SELECT_PANE"))
    THEN Handled(IF Rest(text) \in {<<"U">>, <<"D">>, <<"L">>, <<"R">>}
                 THEN <<"select-pane">> ELSE <<>>)
    ELSE IF StartsWith(text, Tag("TOGGLE_ZOOM")) THEN Handled(<<"resize-pane">>)
    ELSE IF StartsWith(text, Tag("SCROLL")) THEN Handled(ScrollSteps(Rest(text)))
    ELSE IF text = Tag("SHIFT_ENTER") THEN Handled(<<"send-keys">>)
    ELSE IF text = Tag("DISABLE_MOUSE") THEN Handled(<<"set-option", "send_text">>)
    ELSE IF text = Tag("FIX_BELL")
    THEN Handled(<<"set-option", "set-option", "send_text">>)
    ELSE IF StartsWith(text, Tag("LIST_PANES"))
    THEN Handled(IF IsInt(Rest(text)) THEN <<"list-panes", "send_text">> ELSE <<>>)
    ELSE IF StartsWith(text, Tag("ZOOM_PANE"))
    THEN CASE PaneTarget(Rest(text)) = "ok" ->
                  Handled(<<"select-pane", "resize-pane">>)
           [] PaneTarget(Rest(text)) = "value_error" -> Handled(<<>>)
           [] OTHER -> Raised
    ELSE IF StartsWith(text, Tag("UNZOOM_PANE"))
    THEN Handled(IF zoomed THEN <<"display-message", "resize-pane">>
                 ELSE <<"display-message">>)
    ELSE IF StartsWith(text, Tag("CAPTURE_PANE"))
    THEN CASE PaneTarget(Rest(text)) = "ok" ->
                  Handled(<<"capture-pane", "send_text">>)
           [] PaneTarget(Rest(text)) = "value_error" -> Handled(<<>>)
           [] OTHER -> Raised
    ELSE NotHandled

\* ws_to_docker (lines 569-745): the same chain; every handler catches
\* Exception, and RESIZE awaits dm.exec_resize.
DockerDispatch(text, zoomed) ==
    IF StartsWith(text, Tag("RESIZE"))
    THEN Handled(IF ResizeArgs(text) THEN <<"exec-resize">> ELSE <<>>)
    ELSE IF StartsWith(text, Tag("SELECT_WINDOW"))
    THEN Handled(IF IsInt(Rest(text)) THEN <<"select-window">> ELSE <<>>)
    ELSE IF StartsWith(text, Tag("SELECT_PANE"))
    THEN Handled(IF Rest(text) \in {<<"U">>, <<"D">>, <<"L">>, <<"R">>}
                 THEN <<"select-pane">> ELSE <<>>)
    ELSE IF StartsWith(text, Tag("TOGGLE_ZOOM")) THEN Handled(<<"resize-pane">>)
    ELSE IF StartsWith(text, Tag("SCROLL")) THEN Handled(ScrollSteps(Rest(text)))
    ELSE IF text = Tag("SHIFT_ENTER") THEN Handled(<<"send-keys">>)
    ELSE IF text = Tag("DISABLE_MOUSE") THEN Handled(<<"set-option", "send_text">>)
    ELSE IF text = Tag("FIX_BELL")
    THEN Handled(<<"set-option", "set-option", "send_text">>)
    ELSE IF StartsWith(text, Tag("LIST_PANES"))
    THEN Handled(IF IsInt(Rest(text)) THEN <<"list-panes", "send_text">> ELSE <<>>)
    ELSE IF StartsWith(text, Tag("ZOOM_PANE"))
    THEN Handled(IF PaneTarget(Rest(text)) = "ok"
                 THEN <<"select-pane", "resize-pane">> ELSE <<>>)
    ELSE IF StartsWith(text, Tag("UNZOOM_PANE"))
    THEN Handled(IF zoomed THEN <<"display-message", "resize-pane">>
                 ELSE <<"display-message">>)
    ELSE IF StartsWith(text, Tag("CAPTURE_PANE"))
    THEN Handled(IF PaneTarget(Rest(text)) = "ok"
                 THEN <<"capture-pane", "send_text">> ELSE <<>>)
    ELSE NotHandled

Dispatch(p, text, zoomed) ==
    IF p = "pty" THEN PtyDispatch(text, zoomed) ELSE DockerDispatch(text, zoomed)

\* str.encode("utf-8"), token by token
Utf8Token(tok) ==
    CASE tok = "RESIZE" -> <<82, 69, 83, 73, 90, 69>>
    [] tok = "SELECT_WINDOW" -> <<83, 69, 76, 69, 67, 84, 95, 87, 73, 78, 68, 79, 87>>
    [] tok = "SELECT_PANE" -> <<83, 69, 76, 69, 67, 84, 95, 80, 65, 78, 69>>
    [] tok = "TOGGLE_ZOOM" -> <<84, 79, 71, 71, 76, 69, 95, 90, 79, 79, 77>>
    [] tok = "SCROLL" -> <<83, 67, 82, 79, 76, 76>>
    [] tok = "SHIFT_ENTER" -> <<83, 72, 73, 70, 84, 95, 69, 78, 84, 69, 82>>
    [] tok = "DISABLE_MOUSE" -> <<68, 73, 83, 65, 66, 76, 69, 95, 77, 79, 85, 83, 69>>
    [] tok = "FIX_BELL" -> <<70, 73, 88, 95, 66, 69, 76, 76>>
    [] tok = "LIST_PANES" -> <<76, 73, 83, 84, 95, 80, 65, 78, 69, 83>>
    [] tok = "ZOOM_PANE" -> <<90, 79, 79, 77, 95, 80, 65, 78, 69>>
    [] tok = "UNZOOM_PANE" -> <<85, 78, 90, 79, 79, 77, 95, 80, 65, 78, 69>>
    [] tok = "CAPTURE_PANE" -> <<67, 65, 80, 84, 85, 82, 69, 95, 80, 65, 78, 69>>
    [] tok = ":" -> <<58>>
    [] tok = "." -> <<46>>
    [] tok = "0" -> <<48>>
    [] tok = "1" -> <<49>>
    [] tok = "80" -> <<56, 48>>
    [] tok = "24" -> <<50, 52>>
    [] tok = "x" -> <<120>>
    [] tok = "a" -> <<97>>
    [] tok = "U" -> <<85>>
    [] tok = "up" -> <<117, 112>>
    [] tok = "down" -> <<100, 111, 119, 110>>
    [] tok = "e-acute" -> <<195, 169>>

RECURSIVE Utf8(_)
Utf8(text) ==
    IF text = <<>> THEN <<>> ELSE Utf8Token(Head(text)) \o Utf8(Tail(text))

\* The bytes the loop writes for a frame it does not consume.
FrameBytes(f) == IF f.kind = "bytes" THEN f.bytes ELSE Utf8(f.text)

\* ------------------------------------------------------------------------
\* Terminal proxy: the receive loop (ws_to_pty / ws_to_docker)
\* ------------------------------------------------------------------------
notPty == <<bridgeVars, termVars, reqVars, sideVars>>

\* Ends the task normally (the loop is left by break or by a caught
\* exception).
TaskEnds(tk, t, how) == [tk EXCEPT ![t] = how]

\* websocket.receive() returns a frame of the browser.
WsReceive(f, zoomed, limit) ==
    /\ task["ws_to_pty"] = "running"
    /\ w2p = "recv"
    /\ browser_open
    /\ Len(ws_in) < limit
    /\ ws_in' = Append(ws_in, f)
    /\ IF f.kind = "bytes"
       THEN w2p' = "write" /\ UNCHANGED <<todo, task>>
       ELSE LET d == Dispatch(path, f.text, zoomed) IN
            IF d.raises
            THEN /\ task' = TaskEnds(task, "ws_to_pty", "failed")
                 /\ UNCHANGED <<w2p, todo>>
            ELSE IF ~d.consumed
            THEN w2p' = "write" /\ UNCHANGED <<todo, task>>
            ELSE /\ todo' = d.steps
                 /\ w2p' = IF d.steps = <<>> THEN "recv" ELSE "spawn"
                 /\ UNCHANGED task
    /\ ev' = [op |-> "frame"]
    /\ UNCHANGED <<path, t_pc, fd_open, child, child_signalled, child_waited,
                   browser_open, srv_ws_closed, cmds, written, notPty>>

\* The loop starts the next tmux command of the frame; when starting it
\* raises OSError the handler of the frame logs and the loop continues.
CmdStart(fails) ==
    /\ task["ws_to_pty"] = "running"
    /\ w2p = "spawn"
    /\ Head(todo) # "send_text"
    /\ IF fails
       THEN /\ w2p' = "recv"
            /\ todo' = <<>>
            /\ UNCHANGED cmds
       ELSE /\ cmds' = Append(cmds, [frame |-> Len(ws_in), name |-> Head(todo),
                                     done |-> FALSE])
            /\ w2p' = "cmd_wait"
            /\ UNCHANGED todo
    /\ ev' = [op |-> "cmd_start"]
    /\ UNCHANGED <<path, t_pc, task, fd_open, child, child_signalled,
                   child_waited, browser_open, srv_ws_closed, ws_in, written,
                   notPty>>

\* A started tmux command exits.
CmdFinish(i) ==
    /\ i \in 1..Len(cmds)
    /\ ~cmds[i].done
    /\ cmds' = [cmds EXCEPT ![i].done = TRUE]
    /\ ev' = [op |-> "cmd_exit"]
    /\ UNCHANGED <<path, t_pc, task, fd_open, child, child_signalled,
                   child_waited, browser_open, srv_ws_closed, ws_in, w2p, todo,
                   written, notPty>>

\* A loop that starts its commands without awaiting them.
AwaitsCommand_detached(done) == TRUE

\* await sw.wait(): the loop goes on once the command has exited.
AwaitsCommand(done) == done

CmdAwaited ==
    /\ task["ws_to_pty"] = "running"
    /\ w2p = "cmd_wait"
    /\ AwaitsCommand(cmds[Len(cmds)].done)
    /\ todo' = Tail(todo)
    /\ w2p' = IF Tail(todo) = <<>> THEN "recv" ELSE "spawn"
    /\ ev' = [op |-> "cmd_awaited"]
    /\ UNCHANGED <<path, t_pc, task, fd_open, child, child_signalled,
                   child_waited, browser_open, srv_ws_closed, ws_in, cmds,
                   written, notPty>>

\* await websocket.send_text(reply) at the end of a control frame.  With
\* the browser gone it raises WebSocketDisconnect: the PTY loop ends, the
\* docker loop catches it and continues.
WsReply ==
    /\ task["ws_to_pty"] = "running"
    /\ w2p = "spawn"
    /\ Head(todo) = "send_text"
    /\ todo' = <<>>
    /\ w2p' = "recv"
    /\ task' = IF ~browser_open /\ path = "pty"
               THEN TaskEnds(task, "ws_to_pty", "done")
               ELSE task
    /\ ev' = [op |-> "reply"]
    /\ UNCHANGED <<path, t_pc, fd_open, child, child_signalled, child_waited,
                   browser_open, srv_ws_closed, ws_in, cmds, written, notPty>>

\* os.write(master_fd, ...) / raw_sock.sendall(...) of the current frame.
\* With the child gone the write may raise OSError, which ends the loop.
WsWrite(raises) ==
    /\ task["ws_to_pty"] = "running"
    /\ w2p = "write"
    /\ raises => child = "exited"
    /\ w2p' = "recv"
    /\ IF raises
       THEN /\ task' = TaskEnds(task, "ws_to_pty", "done")
            /\ UNCHANGED written
       ELSE /\ written' =
                 Append(written,
                        [frame |-> Len(ws_in),
                         data |-> FrameBytes(ws_in[Len(ws_in)]),
                         unfinished |-> {i \in 1..Len(cmds) : ~cmds[i].done}])
            /\ UNCHANGED task
    /\ ev' = [op |-> "write"]
    /\ UNCHANGED <<path, t_pc, fd_open, child, child_signalled, child_waited,
                   browser_open, srv_ws_closed, ws_in, todo, cmds, notPty>>

\* websocket.receive() returns websocket.disconnect: break.
WsDisconnect ==
    /\ task["ws_to_pty"] = "running"
    /\ w2p = "recv"
    /\ ~browser_open
    /\ task' = TaskEnds(task, "ws_to_pty", "done")
    /\ ev' = [op |-> "disconnect"]
    /\ UNCHANGED <<path, t_pc, fd_open, child, child_signalled, child_waited,
                   browser_open, srv_ws_closed, ws_in, w2p, todo, cmds, written,
                   notPty>>

\* ------------------------------------------------------------------------
\* Terminal proxy: the other tasks, the environment and the handler
\* ------------------------------------------------------------------------
\* The browser closes its end.
BrowserClose ==
    /\ browser_open
    /\ browser_open' = FALSE
    /\ ev' = [op |-> "browser_close"]
    /\ UNCHANGED <<path, t_pc, task, fd_open, child, child_signalled,
                   child_waited, srv_ws_closed, ws_in, w2p, todo, cmds, written,
                   notPty>>

\* The tmux attach child exits, by itself or after SIGTERM.
ChildExit ==
    /\ child = "running"
    /\ child' = "exited"
    /\ ev' = [op |-> "child_exit"]
    /\ UNCHANGED <<path, t_pc, task, fd_open, child_signalled, child_waited,
                   browser_open, srv_ws_closed, ws_in, w2p, todo, cmds, written,
                   notPty>>

\* pty_to_ws ends: os.read returns no data or raises OSError once the
\* child is gone, or send_bytes raises with the browser gone
\* (WebSocketDisconnect is caught, any other exception fails the task).
PtyToWsEnds(how) ==
    /\ task["pty_to_ws"] = "running"
    /\ child = "exited" \/ ~browser_open
    /\ how = "failed" => ~browser_open
    /\ task' = TaskEnds(task, "pty_to_ws", how)
    /\ ev' = [op |-> "pty_to_ws_end"]
    /\ UNCHANGED <<path, t_pc, fd_open, child, child_signalled, child_waited,
                   browser_open, srv_ws_closed, ws_in, w2p, todo, cmds, written,
                   notPty>>

\* poll_window_state: an OSError of a tmux call is re-raised and is not
\* caught by the outer clause; every other exception of a round is logged
\* and the loop goes on.
PollFails ==
    /\ task["poll_window_state"] = "running"
    /\ task' = TaskEnds(task, "poll_window_state", "failed")
    /\ ev' = [op |-> "poll_fail"]
    /\ UNCHANGED <<path, t_pc, fd_open, child, child_signalled, child_waited,
                   browser_open, srv_ws_closed, ws_in, w2p, todo, cmds, written,
                   notPty>>

\* A handler that leaves the pending tasks running.
CancelPending_none(status) == status

\* for task in pending: task.cancel()
CancelPending(status) == IF status = "running" THEN "cancelling" ELSE status

\* What the handler does after it has closed the upstream: _pty_terminal
\* terminates the child and awaits proc.wait() inside its finally clause;
\* the docker branch has no child and goes on to websocket.close().
AfterWait_variant(p) == "close_ws"

AfterWait(p) == IF p = "docker" THEN "close_ws" ELSE "proc_wait"

\* asyncio.wait returns after the first task has completed: the pending
\* tasks are cancelled, the master fd (the raw socket of the docker exec)
\* is closed, the child of a local or host proxy is sent SIGTERM and the
\* handler awaits proc.wait(). No await lies between these calls.
WaitReturns ==
    /\ t_pc = "waiting"
    /\ \E t \in TaskNames : task[t] \in {"done", "failed"}
    /\ task' = [t \in TaskNames |-> CancelPending(task[t])]
    /\ fd_open' = FALSE
    /\ child_signalled' = (path # "docker" /\ child = "running")
    /\ t_pc' = AfterWait(path)
    /\ ev' = [op |-> "wait_returns"]
    /\ UNCHANGED <<path, child, child_waited, browser_open, srv_ws_closed,
                   ws_in, w2p, todo, cmds, written, notPty>>

\* A cancelled task is resumed with CancelledError: pty_to_ws and
\* ws_to_pty end cancelled, poll_window_state catches it and returns.
TaskCancelled(t) ==
    /\ task[t] = "cancelling"
    /\ task' = [task EXCEPT ![t] =
                   IF t = "poll_window_state" THEN "done" ELSE "cancelled"]
    /\ ev' = [op |-> "cancelled"]
    /\ UNCHANGED <<path, t_pc, fd_open, child, child_signalled, child_waited,
                   browser_open, srv_ws_closed, ws_in, w2p, todo, cmds, written,
                   notPty>>

\* await proc.wait() returns.
ProcWaitReturns ==
    /\ t_pc = "proc_wait"
    /\ child = "exited"
    /\ child_waited' = TRUE
    /\ t_pc' = "close_ws"
    /\ ev' = [op |-> "proc_waited"]
    /\ UNCHANGED <<path, task, fd_open, child, child_signalled, browser_open,
                   srv_ws_closed, ws_in, w2p, todo, cmds, written, notPty>>

\* terminal_ws, finally: await websocket.close()
CloseWs ==
    /\ t_pc = "close_ws"
    /\ srv_ws_closed' = TRUE
    /\ t_pc' = "ended"
    /\ ev' = [op |-> "close_ws"]
    /\ UNCHANGED <<path, task, fd_open, child, child_signalled, child_waited,
                   browser_open, ws_in, w2p, todo, cmds, written, notPty>>

\* Frames of the browser in SpecTerm.
TermFrames ==
    {TextFrame(<<"a">>),
     BytesFrame(<<255>>),
     TextFrame(<<"SELECT_WINDOW", ":", "1">>),
     TextFrame(<<"FIX_BELL", ":">>)}

InitTerm == BridgeIdle /\ PtyStart("pty") /\ SideIdle

NextTerm ==
    \/ \E f \in TermFrames : WsReceive(f, FALSE, MaxFrames)
    \/ \E fails \in BOOLEAN : CmdStart(fails)
    \/ \E i \in 1..(2 * MaxFrames) : CmdFinish(i)
    \/ CmdAwaited
    \/ WsReply
    \/ \E raises \in BOOLEAN : WsWrite(raises)
    \/ WsDisconnect
    \/ BrowserClose
    \/ ChildExit
    \/ \E how \in {"done", "failed"} : PtyToWsEnds(how)
    \/ PollFails
    \/ WaitReturns
    \/ \E t \in TaskNames : TaskCancelled(t)
    \/ ProcWaitReturns
    \/ CloseWs

SpecTerm == InitTerm /\ [][NextTerm]_vars

\* ------------------------------------------------------------------------
\* Claims checked under SpecTerm
\* ------------------------------------------------------------------------

\* C8: once one of the three tasks of a local or host terminal proxy has
\* completed, normally or with an exception, the handler ends with every
\* task finished or cancelled (task.cancel() has been called on it), the
\* PTY master fd closed, the tmux attach child terminated and waited for,
\* and the browser WebSocket closed.
C8_CleanupOnFirstCompletion ==
    /\ t_pc # "waiting" =>
          /\ \A t \in TaskNames :
                task[t] \in {"done", "failed", "cancelling", "cancelled"}
          /\ ~fd_open
    /\ t_pc \in {"close_ws", "ended"} => (child = "exited" /\ child_waited)
    /\ t_pc = "ended" => srv_ws_closed

\* The poller failed first while frames had been written; the handler
\* ended with the two other tasks cancelled and the child sent SIGTERM.
C8_Witness ==
    /\ t_pc = "ended"
    /\ task["poll_window_state"] = "failed"
    /\ task["pty_to_ws"] = "cancelled"
    /\ task["ws_to_pty"] = "cancelled"
    /\ child_signalled
    /\ written # <<>>

\* The frames of ws the loop writes to the upstream, as bytes, in order.
RECURSIVE DataOf(_, _)
DataOf(p, ws) ==
    IF ws = <<>> THEN <<>>
    ELSE LET f == Head(ws) IN
         (IF f.kind = "bytes" \/ ~Dispatch(p, f.text, FALSE).consumed
          THEN <<FrameBytes(f)>> ELSE <<>>) \o DataOf(p, Tail(ws))

WrittenData == [i \in 1..Len(written) |-> written[i].data]

Front(sq) == SubSeq(sq, 1, Len(sq) - 1)

\* C10: the frames of one terminal are handled one at a time in arrival
\* order: the bytes written to the upstream are those of the data frames
\* received, in the order received (the last frame received may still be
\* unwritten), and when the bytes of a frame are written every tmux
\* command started for an earlier frame has exited.
C10_FifoAndControlFirst ==
    /\ \/ WrittenData = DataOf(path, ws_in)
       \/ ws_in # <<>> /\ WrittenData = DataOf(path, Front(ws_in))
    /\ \A i \in 1..Len(written) : written[i].unfinished = {}
    /\ \A i \in 1..Len(cmds) : \A j \in 1..Len(cmds) :
          i < j => cmds[i].done /\ cmds[i].frame <= cmds[j].frame

\* FIX_BELL: ran its two commands, then a data frame was written.
C10_Witness ==
    /\ Len(cmds) = 2
    /\ cmds[1].frame = 1 /\ cmds[2].frame = 1
    /\ \E i \in 1..Len(written) : written[i].frame = 2

\* ------------------------------------------------------------------------
\* The receive loop alone, on every kind of frame, on both paths
\* ------------------------------------------------------------------------
TagNames ==
    {"RESIZE", "SELECT_WINDOW", "SELECT_PANE", "TOGGLE_ZOOM", "SCROLL",
     "SHIFT_ENTER", "DISABLE_MOUSE", "FIX_BELL", "LIST_PANES", "ZOOM_PANE",
     "UNZOOM_PANE", "CAPTURE_PANE"}

AllFrames ==
    {TextFrame(<<t, ":">>) : t \in TagNames}
    \cup {TextFrame(<<t, ":", a>>) : t \in TagNames, a \in {"1", "x"}}
    \cup {TextFrame(<<t>>) : t \in TagNames}
    \cup {TextFrame(t) : t \in {<<"RESIZE", ":", "80", ":", "24">>,
                                <<"SELECT_PANE", ":", "U">>,
                                <<"SCROLL", ":", "up">>,
                                <<"SCROLL", ":", "down">>,
                                <<"ZOOM_PANE", ":", "1", ".", "0">>,
                                <<"CAPTURE_PANE", ":", "1", ".", "0">>,
                                <<>>, <<"a">>, <<"e-acute">>,
                                <<"x", "RESIZE", ":">>}}
    \cup {BytesFrame(b) : b \in {<<0>>, <<255, 13>>, Utf8(Tag("RESIZE"))}}

InitFrame == BridgeIdle /\ SideIdle /\ \E p \in {"pty", "docker"} : PtyStart(p)

NextFrame ==
    \/ \E f \in AllFrames : \E z \in BOOLEAN : WsReceive(f, z, FrameRun)
    \/ \E fails \in BOOLEAN : CmdStart(fails)
    \/ \E i \in 1..(2 * FrameRun) : CmdFinish(i)
    \/ CmdAwaited
    \/ WsReply
    \/ WsWrite(FALSE)

SpecFrame == InitFrame /\ [][NextFrame]_vars

\* A text that begins with one of the known tags.
HasKnownTag(text) == \E t \in TagNames : StartsWith(text, Tag(t))

\* The writes made for frame k.
WritesOf(k) == {i \in 1..Len(written) : written[i].frame = k}

\* Frame k has been handled to the end.
FrameHandled(k) == k < Len(ws_in) \/ (w2p = "recv" /\ task["ws_to_pty"] = "running")

\* C9: a text frame that begins with a known tag is consumed and never
\* written to the upstream, whatever follows the tag; every other text
\* frame is written UTF-8 encoded and every binary frame verbatim.
C9_TagsConsumed ==
    \A k \in 1..Len(ws_in) :
        LET f == ws_in[k] IN
        IF f.kind = "text" /\ HasKnownTag(f.text)
        THEN WritesOf(k) = {}
        ELSE FrameHandled(k) =>
                /\ Cardinality(WritesOf(k)) = 1
                /\ \A i \in WritesOf(k) :
                      written[i].data =
                          IF f.kind = "bytes" THEN f.bytes ELSE Utf8(f.text)

\* ========================================================================
\* The window-state poller: poll_window_state (local and host terminals)
\* and poll_docker_window_state (docker terminals), the same loop twice.
\* ========================================================================
Window(i, n, a, b, act, ps) ==
    [index |-> i, name |-> n, active |-> a, bell |-> b, activity |-> act,
     pane_status |-> ps]

\* What tm.list_windows can return: no window (tmux printed nothing), one
\* window, the same window with another pane status, with its bell flag set,
\* and two windows with either one active.
WindowLists ==
    { <<>>,
      <<Window(0, "sh", TRUE, FALSE, FALSE, "")>>,
      <<Window(0, "sh", TRUE, FALSE, FALSE, "busy")>>,
      <<Window(0, "sh", TRUE, TRUE, FALSE, "")>>,
      <<Window(0, "sh", TRUE, FALSE, FALSE, ""),
        Window(1, "vi", FALSE, FALSE, FALSE, "")>>,
      <<Window(0, "sh", FALSE, FALSE, FALSE, ""),
        Window(1, "vi", TRUE, FALSE, FALSE, "")>> }

\* next((w["index"] for w in windows if w.get("active")), None)
ActiveOf(windows) ==
    IF \E i \in 1..Len(windows) : windows[i].active
    THEN LET first == CHOOSE i \in 1..Len(windows) :
                          /\ windows[i].active
                          /\ \A j \in 1..(i - 1) : ~windows[j].active
         IN windows[first].index
    ELSE NoActive

\* [(w["index"], w["name"], w.get("bell"), w.get("activity")) for w in windows]
Summary(windows) ==
    [i \in 1..Len(windows) |->
        <<windows[i].index, windows[i].name, windows[i].bell,
          windows[i].activity>>]

\* win_summary != last_summary, where last_summary is the summary of
\* last_windows "if last_windows" and None otherwise: None and the empty list
\* are both false, and a list never equals None.
SummaryDiffers(windows, last) ==
    IF last.some /\ last.list # <<>>
    THEN Summary(windows) # Summary(last.list)
    ELSE TRUE

\* The tmux session changes between two ticks.
TmuxChange(w) ==
    /\ poller.tmux_changes < MaxTmuxChanges
    /\ w # poller.tmux_windows
    /\ poller' = [poller EXCEPT !.tmux_windows = w,
                                !.tmux_changes = @ + 1]
    /\ ev' = [op |-> "tmux"]
    /\ UNCHANGED <<bridgeVars, termVars, reqVars, ptyVars, nm, moreVars>>

\* One turn of the loop, after asyncio.sleep(1). raises: tm.list_windows
\* raised an exception that is not an OSError (a docker exec error), which
\* the loop logs. The browser WebSocket is open, so send_text returns.
PollTick(raises) ==
    /\ poller.poll_ticks < MaxTicks
    /\ task["poll_window_state"] = "running"
    /\ raises => path = "docker"
    /\ LET windows == poller.tmux_windows
           active == ActiveOf(windows)
           win_summary == Summary(windows)
           push == /\ ~raises
                   /\ \/ active # poller.last_active
                      \/ SummaryDiffers(windows, poller.last_windows)
       IN /\ poller' =
                IF push
                THEN [poller EXCEPT
                        !.poll_ticks = @ + 1,
                        !.last_active = active,
                        !.last_windows = [some |-> TRUE, list |-> windows],
                        !.last_push = [some |-> TRUE, active |-> active,
                                       summary |-> win_summary]]
                ELSE [poller EXCEPT !.poll_ticks = @ + 1]
          /\ ev' = [op |-> "tick", read |-> ~raises, pushed |-> push,
                    active |-> active, summary |-> win_summary,
                    prev |-> poller.last_push]
    /\ UNCHANGED <<bridgeVars, termVars, reqVars, ptyVars, nm, moreVars>>

InitPoll ==
    /\ BridgeIdle
    /\ \E p \in {"pty", "docker"} : PtyStart(p)
    /\ \E w \in WindowLists : poller = PollStart(w)
    /\ NotifIdle
    /\ MoreIdle

NextPoll ==
    \/ \E w \in WindowLists : TmuxChange(w)
    \/ \E raises \in BOOLEAN : PollTick(raises)

SpecPoll == InitPoll /\ [][NextPoll]_vars

\* C11: on a tick that read the window list, a WINDOW_STATE frame is pushed
\* exactly when there was no push before or the pair (active window index,
\* summary of the windows) differs from the pair of the last push; so no
\* frame is pushed while the pair stays the same, for the empty list too.
C11_PushOnlyOnChange ==
    (ev.op = "tick" /\ ev.read) =>
        (ev.pushed <=> (\/ ~ev.prev.some
                        \/ ev.active # ev.prev.active
                        \/ ev.summary # ev.prev.summary))

\* ========================================================================
\* Notifications: NotificationManager, the Telegram timer of each record,
\* TelegramBot.send_notification, Telegram replies and the SSE streams.
\* Record ids (uuid4) are taken to be pairwise different; record n is the
\* n-th one created, which is also its place in the _notifications dict.
\* ========================================================================
AllChannels == <<"web", "os", "telegram">>
InSeq(x, sq) == \E i \in 1..Len(sq) : sq[i] = x

\* [c for c in raw_channels if c in all_channels] or all_channels
Channels(raw) ==
    LET known == SelectSeq(raw, LAMBDA c : InSeq(c, AllChannels))
    IN IF known = <<>> THEN AllChannels ELSE known

\* Events put on the subscriber queues; None is the shutdown signal.
NotificationEvent(n) == [event |-> "notification", id |-> n, count |-> 0]
DismissEvent(c) == [event |-> "dismiss", id |-> 0, count |-> c]
NoneEvent == [event |-> "None", id |-> 0, count |-> 0]

\* asyncio.Queue(): maxsize 0, a queue with no bound. full() is
\* "maxsize > 0 and qsize() >= maxsize"; put_nowait raises QueueFull on a
\* full queue, which _broadcast suppresses.
QueueMaxsize == 0
Full(qu) == QueueMaxsize > 0 /\ Len(qu) >= QueueMaxsize
PutNowait_front(qu, e) == IF Full(qu) THEN qu ELSE <<e>> \o qu
PutNowait(qu, e) == IF Full(qu) THEN qu ELSE Append(qu, e)

Broadcast(e) ==
    [q \in Subs |-> IF q \in nm.sse_subscribers THEN PutNowait(nm.queue[q], e)
                    ELSE nm.queue[q]]

\* The task of a timer has not finished (not task.done()).
Unfinished(t) == t.st \in {"sleeping", "sending"}

TimerDelay_always(channels) == nm.timeout_secs

\* delay = 0 if "web" not in record.channels else self._get_timeout()
TimerDelay(channels) ==
    IF ~InSeq("web", channels) THEN 0 ELSE nm.timeout_secs

\* POST /api/v1/notifications with body d.
Create(d) ==
    LET n == Cardinality({m \in Records : nm.rec[m].status # "none"}) + 1
        channels == Channels(d.channels)
        telegram == InSeq("telegram", channels)
        delay == TimerDelay(channels)
    IN /\ ~nm.cleaned
       /\ n \in Records
       /\ nm' = [nm EXCEPT
                   !.rec[n] =
                       [status |-> "pending", session_id |-> d.session_id,
                        container_id |-> d.container_id,
                        tmux_session |-> d.tmux_session,
                        tmux_window |-> d.tmux_window,
                        channels |-> channels,
                        telegram_message_id |-> NoMsgId,
                        telegram_chat_id |-> NoChat, responses |-> <<>>],
                   !.notifications = @ \cup {n},
                   !.queue = Broadcast(NotificationEvent(n)),
                   !.log = Append(@, [e |-> NotificationEvent(n),
                                      ids |-> {n}]),
                   !.timer[n] =
                       IF telegram
                       THEN [st |-> "sleeping", cancel |-> FALSE,
                             idx |-> 0, delay |-> delay]
                       ELSE @,
                   !.timers_made[n] = IF telegram THEN @ + 1 ELSE @]
       /\ ev' = [op |-> "create", id |-> n]
       /\ UNCHANGED <<bridgeVars, termVars, reqVars, ptyVars, poller,
                 moreVars>>

\* The four filters of dismiss against one record.
Matches(r, f) ==
    /\ f.session_id # "" => r.session_id = f.session_id
    /\ f.container_id # "" => r.container_id = f.container_id
    /\ f.tmux_session # "" => r.tmux_session = f.tmux_session
    /\ f.tmux_window # NoWindow => r.tmux_window = f.tmux_window

\* The status test at the head of dismiss's loop.
DismissSkips(r) == r.status = "dismissed"

DismissTimers_kept(hit) == nm.timer

\* The timers dismiss leaves: task.cancel() on the unfinished timer of each
\* record it dismisses.
DismissTimers(hit) ==
    [n \in Records |->
        IF n \in hit /\ Unfinished(nm.timer[n])
        THEN [nm.timer[n] EXCEPT !.cancel = TRUE]
        ELSE nm.timer[n]]

\* POST /api/v1/notifications/dismiss with filters f.
Dismiss(f) ==
    LET hit == {n \in nm.notifications :
                    ~DismissSkips(nm.rec[n]) /\ Matches(nm.rec[n], f)}
        count == Cardinality(hit)
    IN /\ ~nm.cleaned
       /\ nm' = [nm EXCEPT
                   !.rec = [n \in Records |->
                              IF n \in hit
                              THEN [nm.rec[n] EXCEPT !.status = "dismissed"]
                              ELSE nm.rec[n]],
                   !.timer = DismissTimers(hit),
                   !.queue = IF count > 0
                             THEN Broadcast(DismissEvent(count)) ELSE @,
                   !.log = IF count > 0
                           THEN Append(@, [e |-> DismissEvent(count),
                                           ids |-> hit])
                           ELSE @]
       /\ ev' = [op |-> "dismiss", filters |-> f, count |-> count]
       /\ UNCHANGED <<bridgeVars, termVars, reqVars, ptyVars, poller,
                 moreVars>>

\* _schedule_telegram resumes after its sleep: it re-reads the record and,
\* if it is pending and a bot is set, calls send_notification, which returns
\* at once when the bot has no application or no chat is registered.
TimerFires(n) ==
    /\ nm.timer[n].st = "sleeping"
    /\ ~nm.timer[n].cancel
    /\ IF n \notin nm.notifications \/ nm.rec[n].status # "pending"
          \/ nm.telegram_bot = "none"
       THEN /\ nm' = [nm EXCEPT !.timer[n].st = "done"]
            /\ ev' = [op |-> "fire", id |-> n, call |-> FALSE]
       ELSE /\ ev' = [op |-> "fire", id |-> n, call |-> TRUE]
            /\ IF nm.telegram_bot = "created" \/ nm.chats = <<>>
               THEN nm' = [nm EXCEPT
                             !.send_calls[n] = @ + 1,
                             !.rec[n].status = "telegram_sent",
                             !.timer[n].st = "done"]
               ELSE nm' = [nm EXCEPT
                             !.send_calls[n] = @ + 1,
                             !.timer[n].st = "sending",
                             !.timer[n].idx = 1]
    /\ UNCHANGED <<bridgeVars, termVars, reqVars, ptyVars, poller,
                 moreVars>>

\* What _schedule_telegram does when send_notification has returned.
AfterSend(r) == [r EXCEPT !.status = "telegram_sent"]

\* bot.send_message to chat number idx returns (ok, with message id mid) or
\* raises; after the last chat send_notification returns. Telegram numbers
\* the messages of each chat on its own: mid is new in that chat only.
SendMessageDone(n, ok, mid) ==
    /\ nm.timer[n].st = "sending"
    /\ ~nm.timer[n].cancel
    /\ LET chat == nm.chats[nm.timer[n].idx]
           last == nm.timer[n].idx = Len(nm.chats)
           r1 == IF ok THEN [nm.rec[n] EXCEPT !.telegram_message_id = mid,
                                           !.telegram_chat_id = chat]
                 ELSE nm.rec[n]
       IN /\ ok => <<chat, mid>> \notin nm.tg_sent
          /\ ~ok => mid = NoMsgId
          /\ nm' = [nm EXCEPT
                      !.tg_sent = IF ok THEN @ \cup {<<chat, mid>>} ELSE @,
                      !.rec[n] = IF last THEN AfterSend(r1) ELSE r1,
                      !.timer[n] = IF last THEN [@ EXCEPT !.st = "done"]
                                   ELSE [@ EXCEPT !.idx = @ + 1]]
          /\ ev' = [op |-> "sent", id |-> n, ok |-> ok]
    /\ UNCHANGED <<bridgeVars, termVars, reqVars, ptyVars, poller,
                 moreVars>>

\* A timer task whose cancellation was requested is resumed: CancelledError
\* is raised at its await (the sleep, where it is caught and the task
\* returns, or send_message, where "except Exception" does not catch it).
TimerCancelled(n) ==
    /\ Unfinished(nm.timer[n])
    /\ nm.timer[n].cancel
    /\ nm' = [nm EXCEPT !.timer[n].st = "cancelled"]
    /\ ev' = [op |-> "cancelled", id |-> n]
    /\ UNCHANGED <<bridgeVars, termVars, reqVars, ptyVars, poller,
                 moreVars>>

\* The record handle_telegram_reply picks: the first one, in dict order,
\* whose telegram_message_id equals message_id ({} stands for None).
ReplyRecord(message_id) ==
    LET matching == {n \in nm.notifications :
                        nm.rec[n].telegram_message_id = message_id}
    IN IF matching = {} THEN {}
       ELSE {CHOOSE n \in matching : \A m \in matching : n <= m}

\* TelegramBot._handle_message passes a reply to handle_telegram_reply,
\* which appends the text and creates the send-keys task.
HandleTelegramReply(message_id, text) ==
    LET found == ReplyRecord(message_id)
    IN /\ ~nm.cleaned
       /\ Len(nm.replies) < MaxReplies
       /\ nm' = [nm EXCEPT
                   !.replies = Append(@, [message_id |-> message_id,
                                          text |-> text, result |-> found]),
                   !.rec = [n \in Records |->
                              IF n \in found
                              THEN [nm.rec[n] EXCEPT
                                      !.responses = Append(@, text)]
                              ELSE nm.rec[n]],
                   !.send_tasks =
                       IF found = {} THEN @
                       ELSE Append(@, [id |-> CHOOSE n \in found : TRUE,
                                       text |-> text])]
       /\ ev' = [op |-> "reply"]
       /\ UNCHANGED <<bridgeVars, termVars, reqVars, ptyVars, poller,
                 moreVars>>

\* f"{record.tmux_session}:{record.tmux_window}"
Target(r) == <<r.tmux_session, ":", r.tmux_window>>

\* The command _async_send_to_terminal hands to tm._run_cmd.
SendKeys(r, text) ==
    [container_id |-> r.container_id,
     cmd |-> <<"tmux", "send-keys", "-t", Target(r), text, "Enter">>]

\* The oldest _async_send_to_terminal task runs.
SendToTerminalRuns ==
    /\ nm.send_tasks # <<>>
    /\ LET t == Head(nm.send_tasks)
       IN nm' = [nm EXCEPT
                   !.tmux_cmds = Append(@, SendKeys(nm.rec[t.id], t.text)),
                   !.send_tasks = Tail(@)]
    /\ ev' = [op |-> "send_keys"]
    /\ UNCHANGED <<bridgeVars, termVars, reqVars, ptyVars, poller,
                 moreVars>>

CleanupTimers_kept == nm.timer

\* The timers cleanup leaves: task.cancel() on each unfinished one.
CleanupTimers ==
    [n \in Records |->
        IF n \in nm.notifications /\ Unfinished(nm.timer[n])
        THEN [nm.timer[n] EXCEPT !.cancel = TRUE]
        ELSE nm.timer[n]]

\* NotificationManager.cleanup, run once by lifespan at shutdown. The
\* queues have no bound, so "await queue.put(None)" never suspends.
Cleanup ==
    /\ ~nm.cleaned
    /\ nm' = [nm EXCEPT
                !.cleaned = TRUE,
                !.timer = CleanupTimers,
                !.queue = [q \in Subs |-> IF q \in nm.sse_subscribers
                                          THEN Append(nm.queue[q], NoneEvent)
                                          ELSE nm.queue[q]],
                !.sse_subscribers = {},
                !.notifications = {}]
    /\ ev' = [op |-> "cleanup", subs |-> nm.sse_subscribers]
    /\ UNCHANGED <<bridgeVars, termVars, reqVars, ptyVars, poller,
                 moreVars>>

\* GET /api/v1/notifications/stream: subscribe_sse, then the generator runs.
Subscribe(q) ==
    /\ ~nm.cleaned
    /\ nm.sub_pc[q] = "none"
    /\ \A p \in Subs : p < q => nm.sub_pc[p] # "none"
    /\ nm' = [nm EXCEPT !.sse_subscribers = @ \cup {q},
                        !.sub_pc[q] = "streaming",
                        !.sub_from[q] = Len(nm.log)]
    /\ ev' = [op |-> "subscribe", q |-> q]
    /\ UNCHANGED <<bridgeVars, termVars, reqVars, ptyVars, poller,
                 moreVars>>

\* queue.get() returns in stream q: None ends the stream, whose finally
\* clause unsubscribes; any other event is yielded to the client.
StreamRead(q) ==
    /\ nm.sub_pc[q] = "streaming"
    /\ nm.queue[q] # <<>>
    /\ IF Head(nm.queue[q]) = NoneEvent
       THEN nm' = [nm EXCEPT !.queue[q] = Tail(@),
                             !.sub_pc[q] = "ended",
                             !.sse_subscribers = @ \ {q}]
       ELSE nm' = [nm EXCEPT !.queue[q] = Tail(@),
                             !.delivered[q] = Append(@, Head(nm.queue[q]))]
    /\ ev' = [op |-> "read", q |-> q, event |-> Head(nm.queue[q])]
    /\ UNCHANGED <<bridgeVars, termVars, reqVars, ptyVars, poller,
                 moreVars>>

\* The client of stream q goes away: the generator is cancelled and its
\* finally clause unsubscribes.
StreamCancel(q) ==
    /\ nm.sub_pc[q] = "streaming"
    /\ nm' = [nm EXCEPT !.sub_pc[q] = "ended",
                        !.sse_subscribers = @ \ {q}]
    /\ ev' = [op |-> "stream_cancel", q |-> q]
    /\ UNCHANGED <<bridgeVars, termVars, reqVars, ptyVars, poller,
                 moreVars>>

\* Bodies of POST /api/v1/notifications (NotificationRequest).
NotifData ==
    { [session_id |-> "s1", container_id |-> "c1", tmux_session |-> "main",
       tmux_window |-> 0, channels |-> <<>>],
      [session_id |-> "s1", container_id |-> "c1", tmux_session |-> "main",
       tmux_window |-> 1, channels |-> <<"telegram">>],
      [session_id |-> "s2", container_id |-> "c2", tmux_session |-> "dev",
       tmux_window |-> 0, channels |-> <<"web">>],
      [session_id |-> "s2", container_id |-> "c1", tmux_session |-> "main",
       tmux_window |-> 0, channels |-> <<"sms", "telegram", "os">>] }

\* Bodies of POST /api/v1/notifications/dismiss (DismissRequest).
Filters ==
    { [session_id |-> "", container_id |-> "", tmux_session |-> "",
       tmux_window |-> NoWindow],
      [session_id |-> "s1", container_id |-> "", tmux_session |-> "",
       tmux_window |-> NoWindow],
      [session_id |-> "", container_id |-> "c1", tmux_session |-> "main",
       tmux_window |-> 0],
      [session_id |-> "", container_id |-> "", tmux_session |-> "",
       tmux_window |-> 1] }

\* Message ids Telegram hands out.
MsgIds == {1, 2}

\* Bot, chats and setting at startup: no bot token; a bot whose start has
\* not built its application; a started bot with no, one or two chats.
Configs ==
    { <<"none", <<>>, DefaultTimeout>>,
      <<"created", <<"chatA">>, DefaultTimeout>>,
      <<"started", <<>>, 5>>,
      <<"started", <<"chatA">>, 5>>,
      <<"started", <<"chatA", "chatB">>, DefaultTimeout>> }

InitNotif ==
    /\ BridgeIdle
    /\ PtyUnused
    /\ PollIdle
    /\ \E c \in Configs : NotifStart(c[1], c[2], c[3])
    /\ MoreIdle

NextNotif ==
    \/ \E d \in NotifData : Create(d)
    \/ \E f \in Filters : Dismiss(f)
    \/ \E n \in Records : TimerFires(n)
    \/ \E n \in Records : SendMessageDone(n, FALSE, NoMsgId)
    \/ \E n \in Records, mid \in MsgIds : SendMessageDone(n, TRUE, mid)
    \/ \E n \in Records : TimerCancelled(n)
    \/ Cleanup

SpecNotif == InitNotif /\ [][NextNotif]_vars

\* C12: the status of a record changes only from pending to telegram_sent
\* or from pending to dismissed (after its creation as pending); a record
\* that is telegram_sent or dismissed keeps its status.
C12_StatusTransitions ==
    [][\A n \in Records :
          nm'.rec[n].status # nm.rec[n].status =>
              \/ nm.rec[n].status = "none" /\ nm'.rec[n].status = "pending"
              \/ /\ nm.rec[n].status = "pending"
                 /\ nm'.rec[n].status \in {"telegram_sent", "dismissed"}]_vars

\* A timer task that can still run on: not finished, no cancellation asked.
Live(t) == Unfinished(t) /\ ~t.cancel

\* C13: a dismissed record has no live timer; from its dismissal on no call
\* of send_notification and no send_message is started for it; and a record
\* dismissed before its timer fired has had no send_notification call.
C13_DismissedNoTimerNoSend ==
    /\ [](\A n \in Records :
            nm.rec[n].status = "dismissed" =>
                /\ ~Live(nm.timer[n])
                /\ (nm.timer[n].st \in {"sleeping", "cancelled"}
                    /\ nm.timer[n].idx = 0) => nm.send_calls[n] = 0)
    /\ [][\A n \in Records :
            nm.rec[n].status = "dismissed" =>
                /\ nm'.send_calls[n] = nm.send_calls[n]
                /\ nm'.timer[n].idx = nm.timer[n].idx
                /\ nm'.rec[n].telegram_message_id = nm.rec[n].telegram_message_id
         ]_vars

\* A record dismissed while its timer slept, the cancellation delivered.
C13_Witness ==
    \E n \in Records :
        /\ nm.rec[n].status = "dismissed"
        /\ nm.timer[n].st = "cancelled"
        /\ nm.timer[n].idx = 0
        /\ nm.telegram_bot = "started"
        /\ nm.chats # <<>>

\* The timer of every record: one task, with its delay, when telegram is in
\* the channels; none, and no Telegram call, otherwise.
TimerPerRecord ==
    \A n \in Records :
        nm.rec[n].status # "none" =>
            IF \E i \in 1..Len(nm.rec[n].channels) :
                   nm.rec[n].channels[i] = "telegram"
            THEN /\ nm.timers_made[n] = 1
                 /\ nm.timer[n].st # "none"
                 /\ nm.timer[n].delay =
                      IF \E i \in 1..Len(nm.rec[n].channels) :
                             nm.rec[n].channels[i] = "web"
                      THEN nm.timeout_secs ELSE 0
                 /\ nm.send_calls[n] <= 1
            ELSE /\ nm.timers_made[n] = 0
                 /\ nm.timer[n].st = "none"
                 /\ nm.send_calls[n] = 0
                 /\ nm.rec[n].telegram_message_id = NoMsgId

\* The step in which the timer of n resumes after its sleep calls
\* send_notification exactly when the record is pending and a bot is set.
CallOnFire(n) ==
    (nm.timer[n].st = "sleeping" /\ nm'.timer[n].st \in {"sending", "done"}) =>
        nm'.send_calls[n] =
            IF nm.rec[n].status = "pending" /\ n \in nm.notifications
               /\ nm.telegram_bot # "none"
            THEN nm.send_calls[n] + 1 ELSE nm.send_calls[n]

\* The step in which the timer task of n ends, send_notification called.
EndsAfterCall(n) ==
    /\ Unfinished(nm.timer[n])
    /\ ~Unfinished(nm'.timer[n])
    /\ nm'.send_calls[n] = 1

\* C14 as amended: one timer per telegram record with the stated delay; on
\* fire with the record pending and a bot set send_notification is called,
\* once per record; the record becomes telegram_sent when the call returns,
\* unless the record was dismissed or the manager cleaned up while the call
\* was in progress, which cancels the task; no timer and no Telegram call
\* for a record without telegram.
C14_TimerAndSend ==
    /\ []TimerPerRecord
    /\ [][\A n \in Records :
            /\ CallOnFire(n)
            /\ EndsAfterCall(n) =>
                 \/ nm'.rec[n].status = "telegram_sent"
                 \/ /\ nm'.timer[n].st = "cancelled"
                    /\ nm.rec[n].status = "dismissed" \/ nm.cleaned
         ]_vars

\* C14 as stated: whenever the timer fired on a pending record with a bot
\* set, the record is telegram_sent once the timer task has ended.
C14_AsStated ==
    /\ []TimerPerRecord
    /\ [][\A n \in Records :
            /\ CallOnFire(n)
            /\ EndsAfterCall(n) => nm'.rec[n].status = "telegram_sent"
         ]_vars

\* A telegram-only record, sent at once to a registered chat.
C14_Witness ==
    \E n \in Records :
        /\ nm.rec[n].channels = <<"telegram">>
        /\ nm.timer[n].delay = 0
        /\ nm.timer[n].st = "done"
        /\ nm.send_calls[n] = 1
        /\ nm.rec[n].status = "telegram_sent"
        /\ nm.rec[n].telegram_message_id # NoMsgId
        /\ \E m \in Records :
              /\ nm.timer[m].delay = DefaultTimeout
              /\ nm.rec[m].status = "telegram_sent"

\* C15: every record whose status is telegram_sent has a telegram_message_id.
C15_SentHasMessageId ==
    \A n \in Records :
        nm.rec[n].status = "telegram_sent" =>
            nm.rec[n].telegram_message_id # NoMsgId

\* The records a dismiss with filters f is to dismiss: the stored pending
\* ones that equal every filter given.
PendingMatching(f) ==
    {n \in nm.notifications :
        /\ nm.rec[n].status = "pending"
        /\ f.session_id # "" => nm.rec[n].session_id = f.session_id
        /\ f.container_id # "" => nm.rec[n].container_id = f.container_id
        /\ f.tmux_session # "" => nm.rec[n].tmux_session = f.tmux_session
        /\ f.tmux_window # NoWindow => nm.rec[n].tmux_window = f.tmux_window}

\* C16: a dismiss step sets to dismissed exactly the pending records that
\* match its filters and changes no other record; it returns their number
\* and broadcasts one dismiss event with that number when it is positive and
\* nothing otherwise; a dismiss that repeats the one before it returns 0 and
\* broadcasts nothing.
C16_DismissExactlyPending ==
    [][ev'.op = "dismiss" =>
          LET expected == PendingMatching(ev'.filters)
              N == Cardinality(expected)
          IN /\ \A n \in Records :
                   nm'.rec[n] = IF n \in expected
                             THEN [nm.rec[n] EXCEPT !.status = "dismissed"]
                             ELSE nm.rec[n]
             /\ ev'.count = N
             /\ IF N > 0
                THEN /\ Len(nm'.log) = Len(nm.log) + 1
                     /\ nm'.log[Len(nm'.log)].e = DismissEvent(N)
                ELSE nm'.log = nm.log
             /\ (ev.op = "dismiss" /\ ev.filters = ev'.filters) =>
                   (ev'.count = 0 /\ nm'.log = nm.log)
      ]_vars

\* ------------------------------------------------------------------------
\* The SSE streams together with create, dismiss, the timers and cleanup.
\* ------------------------------------------------------------------------
SseData ==
    { [session_id |-> "s1", container_id |-> "c1", tmux_session |-> "main",
       tmux_window |-> 0, channels |-> <<>>],
      [session_id |-> "s2", container_id |-> "c1", tmux_session |-> "main",
       tmux_window |-> 1, channels |-> <<"web">>] }

SseFilters ==
    { [session_id |-> "", container_id |-> "", tmux_session |-> "",
       tmux_window |-> NoWindow],
      [session_id |-> "s1", container_id |-> "", tmux_session |-> "",
       tmux_window |-> NoWindow] }

InitSse ==
    /\ BridgeIdle
    /\ PtyUnused
    /\ PollIdle
    /\ NotifStart("started", <<"chatA">>, DefaultTimeout)
    /\ MoreIdle

\* Streams under create, dismiss and cleanup (the timers stay asleep).
NextSse ==
    \/ \E d \in SseData : Create(d)
    \/ \E f \in SseFilters : Dismiss(f)
    \/ \E q \in Subs : Subscribe(q)
    \/ \E q \in Subs : StreamRead(q)
    \/ \E q \in Subs : StreamCancel(q)
    \/ Cleanup

SpecSse == InitSse /\ [][NextSse]_vars

\* Shutdown: streams and timers under create and cleanup.
NextStop ==
    \/ \E d \in SseData : Create(d)
    \/ \E q \in Subs : Subscribe(q)
    \/ \E q \in Subs : StreamRead(q)
    \/ \E q \in Subs : StreamCancel(q)
    \/ \E n \in Records : TimerFires(n)
    \/ \E n \in Records : SendMessageDone(n, FALSE, NoMsgId)
    \/ \E n \in Records, mid \in MsgIds : SendMessageDone(n, TRUE, mid)
    \/ \E n \in Records : TimerCancelled(n)
    \/ Cleanup

SpecStop == InitSse /\ [][NextStop]_vars

\* The events broadcast after stream q subscribed, in order.
BroadcastSince(q) ==
    [i \in 1..(Len(nm.log) - nm.sub_from[q]) |-> nm.log[nm.sub_from[q] + i].e]

\* The events stream q has been given: those delivered and those queued.
Received(q) ==
    nm.delivered[q] \o SelectSeq(nm.queue[q], LAMBDA e : e # NoneEvent)

IsPrefix(a, b) ==
    /\ Len(a) <= Len(b)
    /\ \A i \in 1..Len(a) : a[i] = b[i]

\* C17: a create step stores the new record as pending and appends its
\* notification event to the queue of every stream subscribed at that
\* moment, and to no other queue; every stream is given the broadcast
\* events in broadcast order, all of them while it is subscribed; and in
\* that order the notification event of a record comes before the dismiss
\* event that dismisses it.
C17_CreateBroadcastsInOrder ==
    /\ [][ev'.op = "create" =>
            /\ nm'.rec[ev'.id].status = "pending"
            /\ nm.rec[ev'.id].status = "none"
            /\ nm'.notifications = nm.notifications \cup {ev'.id}
            /\ \A q \in Subs :
                 nm'.queue[q] = IF q \in nm.sse_subscribers
                             THEN Append(nm.queue[q], NotificationEvent(ev'.id))
                             ELSE nm.queue[q]
         ]_vars
    /\ [](\A q \in Subs :
            /\ IsPrefix(Received(q), BroadcastSince(q))
            /\ q \in nm.sse_subscribers => Received(q) = BroadcastSince(q))
    /\ [](\A i \in 1..Len(nm.log) :
            nm.log[i].e.event = "dismiss" =>
                \A n \in nm.log[i].ids :
                    \E j \in 1..(i - 1) : nm.log[j].e = NotificationEvent(n))

\* A stream that was given the notification of a record and then the
\* dismiss event of its dismissal.
C17_Witness ==
    \E q \in Subs :
        /\ Len(nm.delivered[q]) >= 2
        /\ nm.delivered[q][1] = NotificationEvent(1)
        /\ nm.delivered[q][2] = DismissEvent(1)
        /\ \E p \in Subs : p # q /\ nm.queue[p] # <<>>

\* C18: every subscriber queue has a capacity and never holds more events
\* than it.
C18_QueuesBounded ==
    \A q \in Subs :
        nm.queue[q] # <<>> =>
            (QueueMaxsize > 0 /\ Len(nm.queue[q]) <= QueueMaxsize)

\* C19: the cleanup step leaves no timer that can run on, appends None to
\* the queue of every subscriber, and empties the subscriber set and the
\* record store; a stream that reads None ends and is not subscribed; after
\* cleanup no send_notification call and no send_message is started.
C19_CleanupStopsAll ==
    /\ [][ev'.op = "cleanup" =>
            /\ \A n \in Records : ~Live(nm'.timer[n])
            /\ \A n \in Records :
                 Unfinished(nm.timer[n]) => nm'.timer[n].cancel
            /\ \A q \in Subs :
                 nm'.queue[q] = IF q \in nm.sse_subscribers
                             THEN Append(nm.queue[q], NoneEvent)
                             ELSE nm.queue[q]
            /\ nm'.sse_subscribers = {}
            /\ nm'.notifications = {}
         ]_vars
    /\ [][(ev'.op = "read" /\ ev'.event = NoneEvent) =>
            /\ nm'.sub_pc[ev'.q] = "ended"
            /\ ev'.q \notin nm'.sse_subscribers
         ]_vars
    /\ [][nm.cleaned =>
            /\ nm'.send_calls = nm.send_calls
            /\ \A n \in Records : nm'.timer[n].idx = nm.timer[n].idx
            /\ \A n \in Records : nm'.rec[n].status = nm.rec[n].status
         ]_vars
    /\ [](nm.cleaned => nm.sse_subscribers = {} /\ nm.notifications = {})

\* After cleanup: a stream has ended on reading None, one timer was
\* cancelled in its sleep and one while send_notification ran.
C19_Witness ==
    /\ nm.cleaned
    /\ ev.op = "read"
    /\ ev.event = NoneEvent
    /\ nm.sub_pc[ev.q] = "ended"
    /\ \E n \in Records :
          nm.timer[n].st = "cancelled" /\ nm.rec[n].status = "pending"

\* ------------------------------------------------------------------------
\* Telegram replies: records sent to two chats, replies and send-keys.
\* ------------------------------------------------------------------------
ReplyData ==
    { [session_id |-> "s1", container_id |-> "c1", tmux_session |-> "main",
       tmux_window |-> 0, channels |-> <<"telegram">>],
      [session_id |-> "s2", container_id |-> "c2", tmux_session |-> "dev",
       tmux_window |-> 1, channels |-> <<>>] }

InitReply ==
    /\ BridgeIdle
    /\ PtyUnused
    /\ PollIdle
    /\ NotifStart("started", <<"chatA", "chatB">>, DefaultTimeout)
    /\ MoreIdle

NextReply ==
    \/ \E d \in ReplyData : Create(d)
    \/ \E f \in SseFilters : Dismiss(f)
    \/ \E n \in Records : TimerFires(n)
    \/ \E n \in Records : SendMessageDone(n, FALSE, NoMsgId)
    \/ \E n \in Records, mid \in MsgIds : SendMessageDone(n, TRUE, mid)
    \/ \E n \in Records : TimerCancelled(n)
    \/ \E mid \in MsgIds : HandleTelegramReply(mid, "y")
    \/ SendToTerminalRuns

SpecReply == InitReply /\ [][NextReply]_vars

\* C20: a reply step with a message id that records carry appends the text
\* to the responses of each such record and to no other, changes no status,
\* returns such a record and creates one send-keys task for it; with no
\* such record it returns None and touches nothing; and the task, when it
\* runs, issues tmux send-keys -t <tmux_session>:<tmux_window> text Enter on
\* the record's container_id, once.
C20_ReplyToMatchingRecord ==
    /\ [][ev'.op = "reply" =>
            LET r == nm'.replies[Len(nm'.replies)]
                matching == {n \in nm.notifications :
                                nm.rec[n].telegram_message_id = r.message_id}
            IN /\ \A n \in Records :
                    nm'.rec[n] = IF n \in matching
                              THEN [nm.rec[n] EXCEPT
                                      !.responses = Append(@, r.text)]
                              ELSE nm.rec[n]
               /\ r.result \subseteq matching
               /\ matching # {} => Cardinality(r.result) = 1
               /\ nm'.send_tasks =
                    IF matching = {} THEN nm.send_tasks
                    ELSE Append(nm.send_tasks,
                                [id |-> CHOOSE n \in r.result : TRUE,
                                 text |-> r.text])
               /\ nm'.tmux_cmds = nm.tmux_cmds
         ]_vars
    /\ [][ev'.op = "send_keys" =>
            LET t == Head(nm.send_tasks)
            IN /\ nm'.tmux_cmds =
                    Append(nm.tmux_cmds,
                           [container_id |-> nm.rec[t.id].container_id,
                            cmd |-> <<"tmux", "send-keys", "-t",
                                      <<nm.rec[t.id].tmux_session, ":",
                                        nm.rec[t.id].tmux_window>>,
                                      t.text, "Enter">>])
               /\ nm'.send_tasks = Tail(nm.send_tasks)
               /\ nm'.rec = nm.rec
         ]_vars
\* ========================================================================
\* PATCH /api/v1/bridges/{id} with enabled=false, and DELETE: update_bridge
\* and delete_bridge, run against the /ws/bridge handlers.
\* store.update_bridge_config and store.delete_bridge_config are not in
\* src/backend/app/store.py; a deleted config is one no token matches
\* (enabled[b] = FALSE), as get_bridge_by_token sees it.
\* ========================================================================
CloseNormal == 1000     \* conn.ws.close(code=1000, reason=...)

\* conn.close_all_terminals() has returned (its last statement clears the
\* relays) and bm.unregister(bridge_id) has run.
ApiUnregister(c, b) ==
    /\ terminal_relays' = [terminal_relays EXCEPT ![c] = EmptyDict]
    /\ bridges' = Unregister(bridges, b)

\* The call starts and runs to its first suspension: PATCH writes
\* enabled=false first, DELETE deletes the config last.
ApiStart(op, b) ==
    /\ api = NoCall
    /\ LET c == GetBridge(bridges, b)
           snap == IF c = NoConn THEN {} ELSE DictValues(terminal_relays[c])
       IN /\ enabled' = IF op = "patch" \/ c = NoConn
                        THEN [enabled EXCEPT ![b] = FALSE]
                        ELSE enabled
          /\ IF c = NoConn
             THEN /\ api' = [NoCall EXCEPT !.pc = "returned", !.op = op,
                                           !.b = b]
                  /\ UNCHANGED <<terminal_relays, bridges>>
             ELSE IF snap = {}
             THEN /\ ApiUnregister(c, b)
                  /\ api' = [pc |-> "ws_closing", op |-> op, b |-> b,
                             conn |-> c, todo |-> {}]
             ELSE /\ api' = [pc |-> "closing", op |-> op, b |-> b,
                             conn |-> c, todo |-> snap]
                  /\ UNCHANGED <<terminal_relays, bridges>>
    /\ ev' = [op |-> "api_start", b |-> b]
    /\ UNCHANGED <<pc, bridge_id, existing, close_snap, close_todo,
                   agent_open, ws_sent, ws_close, next_channel, pending,
                   sessions, termVars>>
    /\ UNCHANGED <<reqVars, ptyVars, poller, nm, agent, mem>>

\* conn.close_all_terminals() of the call closes the next user socket of
\* its snapshot; after the last one the connection is unregistered.
ApiCloseNext ==
    /\ api.pc = "closing"
    /\ \E w \in api.todo :
         /\ user_close' = CloseUser(user_close, w, CloseBridgeGone)
         /\ IF api.todo = {w}
            THEN /\ ApiUnregister(api.conn, api.b)
                 /\ api' = [api EXCEPT !.pc = "ws_closing", !.todo = {}]
            ELSE /\ api' = [api EXCEPT !.todo = @ \ {w}]
                 /\ UNCHANGED <<terminal_relays, bridges>>
    /\ ev' = NoEvent
    /\ UNCHANGED <<pc, bridge_id, existing, close_snap, close_todo,
                   agent_open, ws_sent, ws_close, enabled, next_channel,
                   pending, sessions, term_pc, term_conn, term_channel,
                   churn_count>>
    /\ UNCHANGED <<reqVars, ptyVars, poller, nm, agent, mem>>

\* conn.ws.close(code=1000) returns; DELETE then deletes the config; the
\* call returns.
ApiReturn ==
    /\ api.pc = "ws_closing"
    /\ ws_close' = CloseAgent(ws_close, api.conn, CloseNormal)
    /\ enabled' = IF api.op = "delete"
                  THEN [enabled EXCEPT ![api.b] = FALSE]
                  ELSE enabled
    /\ api' = [api EXCEPT !.pc = "returned"]
    /\ ev' = [op |-> "api_return", b |-> api.b]
    /\ UNCHANGED <<pc, bridge_id, existing, close_snap, close_todo,
                   agent_open, ws_sent, bridges, terminal_relays,
                   next_channel, pending, sessions, termVars>>
    /\ UNCHANGED <<reqVars, ptyVars, poller, nm, agent, mem>>

\* First frames of the agents: auth with the token of a config.
TokenFrames ==
    {[kind |-> "text", json |-> "object",
      obj |-> [type |-> "auth", token |-> t]] : t \in {"t1", "t2"}}

InitDisable ==
    /\ BridgeIdle
    /\ PtyUnused
    /\ PollIdle
    /\ NotifIdle
    /\ MoreIdle

NextDisable ==
    \/ \E h \in Handlers : Accept(h)
    \/ \E h \in Handlers : \E f \in TokenFrames : AuthReceive(h, f)
    \/ \E h \in Handlers : AuthCloseNext(h)
    \/ \E h \in Handlers : AgentDisconnect(h)
    \/ \E h \in Handlers : HandleDisconnect(h)
    \/ \E h \in Handlers : FinCloseNext(h)
    \/ \E w \in BridgeTerms : \E b \in Bids : TermAllocate(w, b)
    \/ \E w \in BridgeTerms : TermRegister(w)
    \/ \E w \in BridgeTerms : TermUnregister(w)
    \/ \E op \in {"patch", "delete"} : \E b \in Bids : ApiStart(op, b)
    \/ ApiCloseNext
    \/ ApiReturn

SpecDisable == InitDisable /\ [][NextDisable]_vars

\* C21: once PATCH enabled=false (or DELETE) has returned and while the
\* config stays disabled, no connection is registered for the bridge id,
\* the connection the call found is closed by the server and relays no
\* terminal, and every terminal attached to it has been closed.
C21_DisabledHoldsNoConnection ==
    \A b \in Bids :
        (api.pc = "returned" /\ api.b = b /\ ~enabled[b]) =>
            /\ ~IsConnected(b)
            /\ api.conn # NoConn =>
                 /\ ws_close[api.conn] # NoCode
                 /\ terminal_relays[api.conn] = EmptyDict
                 /\ \A w \in UserWS :
                      (term_conn[w] = api.conn /\ term_pc[w] = "attached")
                          => user_close[w] # NoCode
\* ========================================================================
\* terminal_ws: the session check before the handshake and the choice of
\* the branch by container id
\* ========================================================================
MaxClockSteps == 2          \* steps of the clock
SessionMaxAge == 604800     \* SESSION_MAX_AGE = 7 * 24 * 60 * 60
CloseNoSession == 4001      \* websocket.close(code=4001)

\* Container ids: "local", "host", a docker container, "bridge:<bridge_id>".
ContainerId(prefix, rest) == [prefix |-> prefix, rest |-> rest]
LOCAL_CONTAINER_ID == ContainerId("", "local")
HOST_CONTAINER_ID == ContainerId("", "host")
BRIDGE_PREFIX == "bridge:"
ContainerIds ==
    {LOCAL_CONTAINER_ID, HOST_CONTAINER_ID, ContainerId("", "c1")}
        \cup {ContainerId(BRIDGE_PREFIX, b) : b \in Bids}

IsLocal(container_id) == container_id = LOCAL_CONTAINER_ID
IsHost(container_id) == container_id = HOST_CONTAINER_ID
IsBridge(container_id) == container_id.prefix = BRIDGE_PREFIX
BridgeIdFromContainer(container_id) == container_id.rest

\* The session cookie of a handshake: absent, empty, or a token.
NoCookie == "none"
SessionTokens == {"s1"}
Cookies == {NoCookie, "", "zz"} \cup SessionTokens

\* auth state: whether a PIN hash is stored, the token table, the clock.
AuthStart(pin) ==
    [pin |-> pin, sessions |-> EmptyDict, now |-> 0, steps |-> 0]

\* validate_session(token): the verdict and the token table it leaves.
ValidateSession_variant(table, now, token) ==
    [ok |-> token \in DOMAIN table, sessions |-> table]

ValidateSession(table, now, token) ==
    IF token \notin DOMAIN table
    THEN [ok |-> FALSE, sessions |-> table]
    ELSE IF now > table[token]
    THEN [ok |-> FALSE, sessions |-> DictPop(table, token)]
    ELSE [ok |-> TRUE, sessions |-> table]

\* create_session() at a login
CreateSession(t) ==
    /\ mem.pin
    /\ t \notin DOMAIN mem.sessions
    /\ mem' = [mem EXCEPT
                 !.sessions = DictSet(@, t, mem.now + SessionMaxAge)]
    /\ ev' = NoEvent
    /\ UNCHANGED <<bridgeVars, termVars, reqVars, ptyVars, poller, nm, api,
                   agent>>

\* time.time() moves on.
ClockStep(d) ==
    /\ mem.steps < MaxClockSteps
    /\ mem' = [mem EXCEPT !.now = @ + d, !.steps = @ + 1]
    /\ ev' = NoEvent
    /\ UNCHANGED <<bridgeVars, termVars, reqVars, ptyVars, poller, nm, api,
                   agent>>

\* The branch terminal_ws takes after accept().
Branch(container_id) ==
    IF IsLocal(container_id) THEN "local"
    ELSE IF IsHost(container_id) THEN "host"
    ELSE "docker"

\* docker has a container of that id (names have no colon).
DockerHas(container_id) == container_id.prefix = ""

\* One /ws/terminal/{container_id}/... handshake, up to the attach of its
\* branch: the local and host branches spawn tmux attach on a PTY, the
\* docker branch calls dm.exec_command, which raises for an id docker does
\* not have, and the handler then closes the socket.
TerminalWs(w, container_id, cookie) ==
    /\ term_pc[w] = "new"
    /\ LET checked == mem.pin /\ cookie # NoCookie /\ cookie # ""
           v == ValidateSession(mem.sessions, mem.now, cookie)
           refused == mem.pin /\ (~checked \/ ~v.ok)
           branch == Branch(container_id)
           fails == branch = "docker" /\ ~DockerHas(container_id)
       IN /\ mem' = [mem EXCEPT
                       !.sessions = IF checked THEN v.sessions ELSE @]
          /\ term_pc' = [term_pc EXCEPT ![w] =
                           IF refused THEN "refused"
                           ELSE IF fails THEN "closed" ELSE branch]
          /\ user_close' =
               IF refused THEN CloseUser(user_close, w, CloseNoSession)
               ELSE IF fails THEN CloseUser(user_close, w, CloseDefault)
               ELSE user_close
          /\ ev' = [op |-> "terminal_ws", w |-> w,
                    container_id |-> container_id, cookie |-> cookie,
                    pin |-> mem.pin, sessions |-> mem.sessions,
                    now |-> mem.now, accepted |-> ~refused,
                    started |-> IF refused THEN "none"
                                ELSE IF branch = "docker" THEN "docker_exec"
                                ELSE "pty"]
    /\ UNCHANGED <<pc, bridge_id, existing, close_snap, close_todo,
                   agent_open, ws_sent, ws_close, enabled, bridges,
                   terminal_relays, next_channel, pending, sessions,
                   term_conn, term_channel, churn_count>>
    /\ UNCHANGED <<reqVars, ptyVars, poller, nm, api, agent>>

InitOpen ==
    /\ BridgeIdle
    /\ PtyUnused
    /\ PollIdle
    /\ NotifIdle
    /\ ApiIdle
    /\ AgentIdle
    /\ \E pin \in BOOLEAN : mem = AuthStart(pin)

NextOpen ==
    \/ Accept(1)
    \/ \E f \in TokenFrames : AuthReceive(1, f)
    \/ \E t \in SessionTokens : CreateSession(t)
    \/ \E d \in {1, SessionMaxAge} : ClockStep(d)
    \/ \E w \in BridgeTerms : \E c \in ContainerIds : \E k \in Cookies :
           TerminalWs(w, c, k)

SpecOpen == InitOpen /\ [][NextOpen]_vars

\* A terminal handshake on the container of a connected bridge was accepted.
BridgeTerminalOpened ==
    /\ ev.op = "terminal_ws"
    /\ ev.accepted
    /\ IsBridge(ev.container_id)
    /\ IsConnected(BridgeIdFromContainer(ev.container_id))

\* C22: a terminal WebSocket opened on a bridge container gets a channel of
\* the agent connection, the browser socket is registered under it and
\* attach is sent to the agent (the detach on close is sent for a channel
\* that was attached this way).
C22_BridgeTerminalAttaches ==
    BridgeTerminalOpened =>
        LET c == GetBridge(bridges, BridgeIdFromContainer(ev.container_id))
        IN /\ \E ch \in DOMAIN terminal_relays[c] :
                terminal_relays[c][ch] = ev.w
           /\ "attach" \in ws_sent[c]

\* The cookie of the handshake is no live session: absent, empty, not in
\* the token table, or past its expiry.
NoLiveSession ==
    \/ ev.cookie \in {NoCookie, ""}
    \/ ev.cookie \notin DOMAIN ev.sessions
    \/ ev.now > ev.sessions[ev.cookie]

\* C23: with a PIN configured, a handshake whose session cookie is missing,
\* unknown or expired is closed with 4001 without being accepted and starts
\* no tmux command, PTY or docker exec; with no PIN configured every
\* handshake is accepted and the token table is not consulted.
C23_SessionCheckedBeforeAccept ==
    ev.op = "terminal_ws" =>
        /\ (ev.pin /\ NoLiveSession) =>
              /\ ~ev.accepted
              /\ user_close[ev.w] = CloseNoSession
              /\ term_pc[ev.w] = "refused"
              /\ ev.started = "none"
        /\ ~ev.pin =>
              /\ ev.accepted
              /\ mem.sessions = ev.sessions

\* A cookie past its expiry was refused and its token dropped.
C23_Witness ==
    /\ ev.op = "terminal_ws"
    /\ ev.pin
    /\ ev.cookie \in DOMAIN ev.sessions
    /\ ev.now > ev.sessions[ev.cookie]
    /\ user_close[ev.w] = CloseNoSession
    /\ ev.cookie \notin DOMAIN mem.sessions
\* ========================================================================
\* The bridge agent: Bridge.run, its reconnect loop and its terminals
\* ========================================================================
MaxAttempts == 6        \* connection attempts of one run
MaxAgentTerms == 2      \* TerminalSession objects made in one run
ReconnectMin == 5       \* reconnect_min: float = 5.0
ReconnectMax == 60      \* reconnect_max: float = 60.0

AgentTerms == 1..MaxAgentTerms
AgentChannels == {1, 2}

\* A TerminalSession: its read task, its PTY master fd, its process.
NoTerminal == [task |-> "none", fd |-> "none", proc |-> "none"]
Started == [task |-> "running", fd |-> "open", proc |-> "running"]
\* start() raised at create_subprocess_exec: the fd is open, nothing runs.
StartFailed == [task |-> "none", fd |-> "open", proc |-> "none"]

\* TerminalSession.stop()
StopTerminal_variant(s) ==
    [task |-> "cancelled", fd |-> "closed", proc |-> s.proc]

StopTerminal(s) ==
    [task |-> IF s.task = "none" THEN "none" ELSE "cancelled",
     fd |-> IF s.fd = "none" THEN "none" ELSE "closed",
     proc |-> IF s.proc = "running" THEN "waited" ELSE s.proc]

Stopped(s) ==
    /\ s.task = "cancelled"
    /\ s.fd = "closed"
    /\ s.proc \in {"waited", "exited"}

Min2(x, y) == IF x < y THEN x ELSE y

\* run() up to its first websockets.connect
AgentStart ==
    [pc |-> "connecting", running |-> TRUE, delay |-> ReconnectMin,
     slept |-> 0, attempts |-> 0, last |-> "none",
     terminals |-> EmptyDict, objs |-> [t \in AgentTerms |-> NoTerminal]]

\* Ends of an attempt: _authenticate returned False (run returns), or an
\* exception or the end of _session_loop (run goes on to sleep).
AuthFailures == {"auth_error", "unexpected"}
Permanent_variant(outcome) == outcome = "unexpected"

Permanent(outcome) == outcome \in AuthFailures

\* _cleanup_terminals(): stop every terminal of the map, then clear it.
CleanupTerminals(a) ==
    [a EXCEPT !.objs = [t \in AgentTerms |->
                          IF t \in DictValues(a.terminals)
                          THEN StopTerminal(a.objs[t]) ELSE a.objs[t]],
              !.terminals = EmptyDict]

\* An attempt ends: the finally block, then return, break or sleep(delay).
AttemptEnds(outcome, authed, attempts) ==
    /\ LET a == CleanupTerminals([agent EXCEPT !.attempts = attempts])
           leaves == Permanent(outcome) \/ ~agent.running
       IN /\ agent' = [a EXCEPT
                         !.pc = IF leaves THEN "exited" ELSE "sleeping",
                         !.last = outcome,
                         !.slept = IF leaves THEN @ ELSE agent.delay]
          /\ ev' = [op |-> "attempt_end", outcome |-> outcome,
                    authed |-> authed, sleeps |-> ~leaves,
                    delay |-> agent.delay, prev |-> agent.slept,
                    held |-> DictValues(agent.terminals)]
    /\ UNCHANGED <<bridgeVars, termVars, reqVars, ptyVars, poller, nm, api,
                   mem>>

\* websockets.connect raises.
ConnectFails ==
    /\ agent.pc = "connecting"
    /\ agent.attempts < MaxAttempts
    /\ AttemptEnds("refused", FALSE, agent.attempts + 1)

\* websockets.connect succeeds: delay is reset and auth is sent.
ConnectOk ==
    /\ agent.pc = "connecting"
    /\ agent.attempts < MaxAttempts
    /\ agent' = [agent EXCEPT !.pc = "auth", !.delay = ReconnectMin,
                              !.attempts = @ + 1]
    /\ ev' = NoEvent
    /\ UNCHANGED <<bridgeVars, termVars, reqVars, ptyVars, poller, nm, api,
                   mem>>

\* What _authenticate meets: a reply, the 10 s timeout, a closed socket, a
\* reply that is not JSON.
AuthReplies ==
    {"auth_ok", "auth_error", "unexpected", "timeout", "closed", "bad_json"}

AuthReply(r) ==
    /\ agent.pc = "auth"
    /\ IF r = "auth_ok"
       THEN /\ agent' = [agent EXCEPT !.pc = "session"]
            /\ ev' = NoEvent
            /\ UNCHANGED <<bridgeVars, termVars, reqVars, ptyVars, poller,
                           nm, api, mem>>
       ELSE AttemptEnds(r, FALSE, agent.attempts)

\* _handle_attach: a new TerminalSession is started and stored under the
\* channel of the message.
HandleAttach(c, t, ok) ==
    /\ agent.pc = "session"
    /\ agent.objs[t] = NoTerminal
    /\ \A u \in AgentTerms : u < t => agent.objs[u] # NoTerminal
    /\ agent' = [agent EXCEPT
                   !.objs[t] = IF ok THEN Started ELSE StartFailed,
                   !.terminals = IF ok THEN DictSet(@, c, t) ELSE @]
    /\ ev' = [op |-> "attach", channel |-> c, ok |-> ok]
    /\ UNCHANGED <<bridgeVars, termVars, reqVars, ptyVars, poller, nm, api,
                   mem>>

\* _handle_detach
HandleDetach(c) ==
    /\ agent.pc = "session"
    /\ LET t == DictGet(agent.terminals, c, 0)
       IN /\ agent' = IF t = 0 THEN agent
                      ELSE [agent EXCEPT
                              !.terminals = DictPop(@, c),
                              !.objs[t] = StopTerminal(@)]
          /\ ev' = [op |-> "detach", channel |-> c, t |-> t]
    /\ UNCHANGED <<bridgeVars, termVars, reqVars, ptyVars, poller, nm, api,
                   mem>>

\* The tmux attach process of a terminal exits by itself.
ProcExits(t) ==
    /\ agent.objs[t].proc = "running"
    /\ agent' = [agent EXCEPT !.objs[t].proc = "exited"]
    /\ ev' = NoEvent
    /\ UNCHANGED <<bridgeVars, termVars, reqVars, ptyVars, poller, nm, api,
                   mem>>

\* The server socket closes or the message handler raises.
SessionEnds ==
    /\ agent.pc = "session"
    /\ AttemptEnds("session_end", TRUE, agent.attempts)

\* stop(), from the signal handler
Stop ==
    /\ agent.pc \in {"connecting", "auth", "session", "sleeping"}
    /\ agent.running
    /\ agent' = [agent EXCEPT !.running = FALSE]
    /\ ev' = NoEvent
    /\ UNCHANGED <<bridgeVars, termVars, reqVars, ptyVars, poller, nm, api,
                   mem>>

\* asyncio.sleep(delay) returns: the delay doubles, the loop tests _running.
SleepDone ==
    /\ agent.pc = "sleeping"
    /\ agent' = [agent EXCEPT
                   !.delay = Min2(agent.delay * 2, ReconnectMax),
                   !.pc = IF agent.running THEN "connecting" ELSE "exited"]
    /\ ev' = NoEvent
    /\ UNCHANGED <<bridgeVars, termVars, reqVars, ptyVars, poller, nm, api,
                   mem>>

InitAgent ==
    /\ BridgeIdle
    /\ PtyUnused
    /\ PollIdle
    /\ NotifIdle
    /\ ApiIdle
    /\ MemIdle
    /\ agent = AgentStart

NextAgent ==
    \/ ConnectFails
    \/ ConnectOk
    \/ \E r \in AuthReplies : AuthReply(r)
    \/ \E c \in AgentChannels : \E t \in AgentTerms : \E ok \in BOOLEAN :
           HandleAttach(c, t, ok)
    \/ \E c \in AgentChannels : HandleDetach(c)
    \/ \E t \in AgentTerms : ProcExits(t)
    \/ SessionEnds
    \/ Stop
    \/ SleepDone

SpecAgent == InitAgent /\ [][NextAgent]_vars

\* The sleep returns, as asyncio.sleep does.
SpecAgentFair == SpecAgent /\ WF_vars(SleepDone)

\* C24: the delay starts at reconnect_min, the delay slept after a failed
\* attempt is twice the one slept before it, capped at reconnect_max, the
\* delay slept after an attempt that authenticated is reconnect_min, and the
\* delay always lies in [reconnect_min, reconnect_max].
C24_BackoffDoublesUntilAuth ==
    /\ agent.delay \in ReconnectMin..ReconnectMax
    /\ agent.attempts = 0 => agent.delay = ReconnectMin
    /\ (ev.op = "attempt_end" /\ ev.sleeps) =>
          ev.delay = IF ev.authed \/ ev.prev = 0
                     THEN ReconnectMin
                     ELSE Min2(2 * ev.prev, ReconnectMax)

\* C25: an auth_error reply ends the run for good; a refused connection, a
\* closed socket, an auth timeout, an unparsable reply or the end of a
\* session leads to the sleep and, unless stop() is called, from the sleep
\* to the next connection attempt.
TransientOutcomes == {"refused", "closed", "timeout", "bad_json",
                      "session_end"}

C25_AuthErrorPermanent ==
    /\ [][/\ (ev'.op = "attempt_end" /\ ev'.outcome = "auth_error")
                => agent'.pc = "exited"
          /\ (ev'.op = "attempt_end" /\ ev'.outcome \in TransientOutcomes
                /\ agent.running) => agent'.pc = "sleeping"
          /\ agent.pc = "exited" => agent'.pc = "exited"
          /\ (agent.pc = "sleeping" /\ agent.running
                /\ agent'.pc # "sleeping") => agent'.pc = "connecting"]_vars
    /\ (agent.pc = "sleeping" /\ agent.running)
           ~> (agent.pc = "connecting" \/ ~agent.running)

\* A run came back to connecting after an auth timeout.
C25_Witness ==
    /\ agent.pc = "connecting"
    /\ agent.last = "timeout"
    /\ agent.running

\* C26: a detach stops the terminal stored under its channel and removes
\* the channel from the map; the end of an attempt stops every terminal the
\* map held and leaves the map empty, so it is empty at each connection
\* attempt.
C26_TerminalsStopped ==
    /\ (ev.op = "detach" /\ ev.t # 0) =>
          /\ Stopped(agent.objs[ev.t])
          /\ ev.channel \notin DOMAIN agent.terminals
    /\ ev.op = "attempt_end" =>
          /\ \A t \in ev.held : Stopped(agent.objs[t])
          /\ agent.terminals = EmptyDict
    /\ agent.pc \in {"connecting", "auth", "sleeping", "exited"} =>
          agent.terminals = EmptyDict

\* A session with two terminals ended and both were stopped.
C26_Witness ==
    /\ ev.op = "attempt_end"
    /\ ev.held = AgentTerms
    /\ \A t \in AgentTerms : Stopped(agent.objs[t])
\* ========================================================================
\* allocate_channel called again and again on one connection
\* ========================================================================
MaxCalls == 65537       \* calls of allocate_channel: one past a full cycle

\* One call of allocate_channel() on connection c.
AllocateCall(c) ==
    /\ pc[c] = "loop"
    /\ LET calls == IF ev = NoEvent THEN 0 ELSE ev.calls
           last == IF ev = NoEvent THEN 0 ELSE ev.channel
           a == AllocateChannel(next_channel[c])
       IN /\ calls < MaxCalls
          /\ next_channel' = [next_channel EXCEPT ![c] = a.next]
          /\ ev' = [op |-> "allocate_channel", calls |-> calls + 1,
                    channel |-> a.channel, prev |-> last]
    /\ UNCHANGED <<pc, bridge_id, existing, close_snap, close_todo,
                   agent_open, ws_sent, ws_close, enabled, bridges,
                   terminal_relays, pending, sessions, termVars>>
    /\ UNCHANGED <<reqVars, ptyVars, sideVars>>

\* Connection 1 is registered and fresh; no call has been made.
InitCalls == InitChan

NextCalls == AllocateCall(1)

SpecCalls == InitCalls /\ [][NextCalls]_vars

\* C27: the first allocate_channel of a connection returns 1, each later
\* call returns the previous value plus one, the call after 65535 returns 1,
\* and every returned id lies in 1..65535.
C27_ChannelSequence ==
    ev.op = "allocate_channel" =>
        /\ ev.channel \in 1..65535
        /\ ev.calls = 1 => ev.channel = 1
        /\ ev.calls > 1 =>
              ev.channel = IF ev.prev = 65535 THEN 1 ELSE ev.prev + 1

\* The counter wrapped: the call after the one that returned 65535.
C27_Witness ==
    /\ ev.op = "allocate_channel"
    /\ ev.prev = 65535
    /\ ev.channel = 1
    /\ ev.calls = 65536
\* ========================================================================
\* DebugLog: the ring buffer of log entries
\* ========================================================================
MaxLogCalls == 3        \* single info / warn / error calls
MaxBursts == 1          \* runs of calls that nearly fill the buffer
DebugMaxlen == 2000     \* deque(maxlen=2000)

Levels == {"info", "warn", "error"}

\* LogEntry: n stands for its id and timestamp.
LogEntry(n, level) == [n |-> n, level |-> level]

\* LogEntry.to_dict
ToDict(e) == [id |-> e.n, level |-> e.level]

\* deque.append on a deque with maxlen
DequeAppend_variant(q, e) == q \o <<e>>

DequeAppend(q, e) ==
    IF Len(q) >= DebugMaxlen THEN Tail(q) \o <<e>> ELSE q \o <<e>>

\* The same for a run of appends.
AppendAll(q, es) ==
    LET all == q \o es
    IN IF Len(all) > DebugMaxlen
       THEN SubSeq(all, Len(all) - DebugMaxlen + 1, Len(all))
       ELSE all

\* [e.to_dict() for e in self._entries]: a new list, not the deque.
ToDicts(q) == [i \in 1..Len(q) |-> ToDict(q[i])]
Snapshot(q) == [live |-> FALSE, value |-> ToDicts(q)]

\* DebugLog(): empty; the reader holds an empty list; seen is what the last
\* get_entries returned.
LogStart ==
    [entries |-> <<>>, serial |-> 0, singles |-> 0, bursts |-> 0,
     reader |-> Snapshot(<<>>), seen |-> <<>>]

\* What the reader finds in the list it holds.
ReadBack(r) == IF r.live THEN ToDicts(mem.entries) ELSE r.value

\* info / warn / error
Log(level) ==
    /\ mem.singles < MaxLogCalls
    /\ LET e == LogEntry(mem.serial + 1, level)
       IN /\ mem' = [mem EXCEPT !.entries = DequeAppend(@, e),
                                !.serial = @ + 1, !.singles = @ + 1]
          /\ ev' = [op |-> "log", entry |-> e, before |-> mem.entries]
    /\ UNCHANGED <<bridgeVars, termVars, reqVars, ptyVars, poller, nm, api,
                   agent>>

\* DebugMaxlen - 2 info calls in a row.
LogRun ==
    /\ mem.bursts < MaxBursts
    /\ LET k == DebugMaxlen - 2
           es == [i \in 1..k |-> LogEntry(mem.serial + i, "info")]
       IN mem' = [mem EXCEPT !.entries = AppendAll(@, es),
                             !.serial = @ + k, !.bursts = @ + 1]
    /\ ev' = NoEvent
    /\ UNCHANGED <<bridgeVars, termVars, reqVars, ptyVars, poller, nm, api,
                   agent>>

\* get_entries(): a new list of new dicts, which the reader keeps.
GetEntries ==
    /\ LET r == Snapshot(mem.entries)
       IN /\ mem' = [mem EXCEPT !.reader = r, !.seen = ToDicts(mem.entries)]
          /\ ev' = [op |-> "get_entries", result |-> r.value]
    /\ UNCHANGED <<bridgeVars, termVars, reqVars, ptyVars, poller, nm, api,
                   agent>>

\* clear()
Clear ==
    /\ mem' = [mem EXCEPT !.entries = <<>>]
    /\ ev' = [op |-> "clear"]
    /\ UNCHANGED <<bridgeVars, termVars, reqVars, ptyVars, poller, nm, api,
                   agent>>

InitLog ==
    /\ BridgeIdle
    /\ PtyUnused
    /\ PollIdle
    /\ NotifIdle
    /\ ApiIdle
    /\ AgentIdle
    /\ mem = LogStart

NextLog ==
    \/ \E l \in Levels : Log(l)
    \/ LogRun
    \/ GetEntries
    \/ Clear

SpecLog == InitLog /\ [][NextLog]_vars

\* C28: the log never holds more than 2000 entries; an append to a full
\* log drops the oldest entry and keeps the others in order; get_entries
\* returns the retained entries oldest first, and the list it returned does
\* not change afterwards; clear leaves the log empty.
C28_RingBuffer ==
    /\ Len(mem.entries) <= 2000
    /\ \A i \in 1..(Len(mem.entries) - 1) :
          mem.entries[i].n < mem.entries[i + 1].n
    /\ ev.op = "log" =>
          mem.entries = IF Len(ev.before) = 2000
                        THEN Tail(ev.before) \o <<ev.entry>>
                        ELSE ev.before \o <<ev.entry>>
    /\ ev.op = "get_entries" =>
          /\ Len(ev.result) = Len(mem.entries)
          /\ \A i \in 1..Len(ev.result) :
                /\ ev.result[i].id = mem.entries[i].n
                /\ ev.result[i].level = mem.entries[i].level
    /\ ReadBack(mem.reader) = mem.seen
    /\ ev.op = "clear" => mem.entries = <<>>

\* An append to a full log evicted the oldest entry.
C28_Witness ==
    /\ ev.op = "log"
    /\ Len(ev.before) = 2000
    /\ Len(mem.entries) = 2000
    /\ mem.entries[1] = ev.before[2]
    /\ mem.entries[2000] = ev.entry
\* ========================================================================
\* Session ids: make_session_id, list_sessions, resolve_session_id
\* ========================================================================
\* Strings are sequences of pieces; ":" is always a piece of its own, and
\* tmux session names hold no colon.
Str(container_id) ==
    IF IsBridge(container_id) THEN <<"bridge", ":", container_id.rest>>
    ELSE <<container_id.rest>>

\* hashlib.md5(s).hexdigest()[:12]: a digest that the string determines;
\* two different strings are taken to have different digests.
Md5Hex12(s) == [md5 |-> s]

\* make_session_id(container_id, session_name)
MakeSessionId(container_id, session_name) ==
    Md5Hex12(Str(container_id) \o <<":", session_name>>)

\* The sources of an agent: local, host, docker:<container>.
AgentSources == {<<"local">>, <<"host">>, <<"docker", ":", "web">>}

\* The id the agent gives a session in _list_tmux_sessions.
AgentSessionId(source, name) ==
    Md5Hex12(<<"bridge", ":">> \o source \o <<":", name>>)

\* What tmux list-sessions prints: the session names, in order.
SessionNames == {<<>>, <<"main">>, <<"dev">>, <<"main", "dev">>}

\* The sessions message of the agent for one source, as bridge_ws caches it.
AgentReport(source, names) ==
    [i \in 1..Len(names) |->
        [id |-> AgentSessionId(source, names[i]), name |-> names[i],
         source |-> source]]

\* BridgeManager.get_bridge_for_container
GetBridgeForContainer(container_id) ==
    IF IsBridge(container_id)
    THEN GetBridge(bridges, BridgeIdFromContainer(container_id))
    ELSE NoConn

\* list_sessions(container_id) when tmux has the sessions names; for a
\* bridge container the agent has reported them for source.
ListSessionsResult(container_id, names, source) ==
    IF IsBridge(container_id)
    THEN IF GetBridgeForContainer(container_id) # NoConn
         THEN [i \in 1..Len(names) |->
                 [id |-> AgentReport(source, names)[i].id,
                  name |-> names[i]]]
         ELSE <<>>
    ELSE [i \in 1..Len(names) |->
            [id |-> MakeSessionId(container_id, names[i]),
             name |-> names[i]]]

\* resolve_session_id: the name of the first listed session with that id.
NoName == "null"
ResolveIn(listed, session_id) ==
    LET hits == {i \in 1..Len(listed) : listed[i].id = session_id}
    IN IF hits = {} THEN NoName
       ELSE listed[CHOOSE i \in hits : \A j \in hits : i <= j].name

ListSessions(container_id, names, source) ==
    /\ ev' = [op |-> "list_sessions", container_id |-> container_id,
              result |-> ListSessionsResult(container_id, names, source)]
    /\ UNCHANGED <<bridgeVars, termVars, reqVars, ptyVars, sideVars>>

\* Ids a caller asks for: those of both conventions.
AskedIds(container_id) ==
    {MakeSessionId(container_id, n) : n \in {"main", "dev", "gone"}}
        \cup {AgentSessionId(s, "main") : s \in AgentSources}

ResolveSessionId(container_id, names, source, session_id) ==
    /\ LET listed == ListSessionsResult(container_id, names, source)
       IN ev' = [op |-> "resolve_session_id",
                 container_id |-> container_id, session_id |-> session_id,
                 listed |-> listed,
                 result |-> ResolveIn(listed, session_id)]
    /\ UNCHANGED <<bridgeVars, termVars, reqVars, ptyVars, sideVars>>

NextIds ==
    \/ \E c \in ContainerIds : \E ns \in SessionNames :
         \E s \in AgentSources : ListSessions(c, ns, s)
    \/ \E c \in ContainerIds : \E ns \in SessionNames :
         \E s \in AgentSources : \E id \in AskedIds(c) :
            ResolveSessionId(c, ns, s, id)

\* Bridge b1 is connected, b2 is not.
SpecIds == InitChan /\ [][NextIds]_vars

\* C29: every session list_sessions returns for a container, of any kind,
\* has the id md5(container_id + ":" + name)[:12], and resolve_session_id
\* returns the name of the listed session with the id asked for, or null
\* when there is none.
C29_SessionIdFromContainerAndName ==
    /\ ev.op = "list_sessions" =>
          \A i \in 1..Len(ev.result) :
             ev.result[i].id =
                Md5Hex12(Str(ev.container_id) \o <<":", ev.result[i].name>>)
    /\ ev.op = "resolve_session_id" =>
          IF \E i \in 1..Len(ev.listed) : ev.listed[i].id = ev.session_id
          THEN \E i \in 1..Len(ev.listed) :
                  /\ ev.listed[i].id = ev.session_id
                  /\ ev.result = ev.listed[i].name
          ELSE ev.result = NoName
\* ========================================================================
\* TmuxManager._run_cmd
\* ========================================================================
\* Output is a sequence of pieces; <<>> is the empty string.
TmuxCmds ==
    {<<"tmux", "list-sessions">>, <<"tmux", "has-session", "-t", "main">>,
     <<"tmux", "kill-session", "-t", "main">>}

\* What the run meets: the spawn, the bridge send or the docker lookup
\* fails; the bridge reply does not come in time; the exit code and what
\* the command wrote.
RunOutcomes ==
    [fails : BOOLEAN, timeout : BOOLEAN, exit : {0, 1},
     stdout : {<<>>, <<"out">>}, stderr : {<<>>, <<"err">>}]

Return(v) == [kind |-> "return", value |-> v]
Raise(e) == [kind |-> "raise", value |-> e]

\* create_subprocess_exec and communicate, as _run_cmd uses them: the
\* return code is not looked at.
LocalExec(argv, o) ==
    IF o.fails THEN Raise("FileNotFoundError") ELSE Return(o.stdout)

\* host: -S <socket> goes in after "tmux".
HostCmd(cmd) == <<cmd[1], "-S", "host_tmux_socket">> \o Tail(cmd)

\* The cmd_result the agent sends back (_handle_tmux_cmd).
NoError == <<"None">>
AgentCmdResult(cmd, o) ==
    IF o.fails THEN [output |-> <<>>, error |-> <<"exc">>]
    ELSE [output |-> o.stdout,
          error |-> IF o.exit # 0 THEN o.stderr ELSE NoError]

\* conn.request(...) and what _run_cmd makes of the result
BridgeExec(conn, cmd, o) ==
    IF conn = NoConn THEN Return(<<>>)
    ELSE IF o.fails THEN Raise("send")
    ELSE IF o.timeout THEN Return(<<>>)
    ELSE LET result == AgentCmdResult(cmd, [o EXCEPT !.fails = FALSE])
         IN IF result.error \notin {<<>>, NoError} THEN Return(<<>>)
            ELSE Return(result.output)

\* DockerManager.exec_command: exec_run gives stdout and stderr in one.
ExecCommand(container_id, cmd, o) ==
    IF o.fails THEN Raise("NotFound") ELSE Return(o.stdout \o o.stderr)

RunCmdResult(container_id, cmd, o) ==
    IF IsLocal(container_id) THEN LocalExec(cmd, o)
    ELSE IF IsHost(container_id) THEN LocalExec(HostCmd(cmd), o)
    ELSE IF IsBridge(container_id)
         THEN BridgeExec(GetBridgeForContainer(container_id), cmd, o)
    ELSE ExecCommand(container_id, cmd, o)

RunCmd(container_id, cmd, o) ==
    /\ ev' = [op |-> "run_cmd", container_id |-> container_id, cmd |-> cmd,
              outcome |-> o,
              connected |-> GetBridgeForContainer(container_id) # NoConn,
              result |-> RunCmdResult(container_id, cmd, o)]
    /\ UNCHANGED <<bridgeVars, termVars, reqVars, ptyVars, sideVars>>

NextRun ==
    \E c \in ContainerIds : \E cmd \in TmuxCmds : \E o \in RunOutcomes :
        RunCmd(c, cmd, o)

\* Bridge b1 is connected, b2 is not.
SpecRun == InitChan /\ [][NextRun]_vars

\* The run failed: no spawn, no send, no container, no connection, no
\* reply in time, or a non-zero exit.
RunFailed ==
    \/ ev.outcome.fails
    \/ ev.outcome.exit # 0
    \/ IsBridge(ev.container_id) /\ (~ev.connected \/ ev.outcome.timeout)

\* C30: _run_cmd returns, for every container kind, the stdout of the
\* command, and the empty string when the run failed; it raises nothing.
C30_StdoutOrEmpty ==
    ev.op = "run_cmd" =>
        /\ ev.result.kind = "return"
        /\ ev.result.value = IF RunFailed THEN <<>> ELSE ev.outcome.stdout
\* ------------------------------------------------------------------------
\* The window poller when a tick fails (ws/terminal.py 381-425, 758-796)
\* ------------------------------------------------------------------------

\* C31: a poll tick that fails with an exception other than cancellation
\* (list_windows, list_panes or the push raising) is logged and suppressed:
\* the poller task is still running after it and the handler is still
\* waiting on its three tasks, so the proxy is not torn down because of it.
C31_PollFailureSuppressed ==
    ev.op = "poll_fail" =>
        /\ task["poll_window_state"] = "running"
        /\ t_pc = "waiting"
\* ------------------------------------------------------------------------
\* Shutdown of a terminal proxy (ws/terminal.py 427-443, 798-822)
\* ------------------------------------------------------------------------

\* A local and a docker terminal proxy, each with its three tasks.
InitShut ==
    /\ BridgeIdle
    /\ \E p \in {"pty", "docker"} : PtyStart(p)
    /\ SideIdle

SpecShut == InitShut /\ [][NextTerm]_vars

NoTaskRunning == \A t \in TaskNames : task[t] # "running"

\* C32: the resources of a terminal proxy are released in this order: the
\* pending tasks are cancelled, then the PTY master fd or the raw docker
\* socket is closed, then the child is terminated, then the child is
\* awaited, and only then is the browser WebSocket closed by the server;
\* nothing is released while the handler still waits on its tasks.
C32_ReleaseOrder ==
    [][/\ t_pc' = "waiting" =>
             (fd_open' /\ ~child_signalled' /\ ~child_waited' /\ ~srv_ws_closed')
       /\ (fd_open /\ ~fd_open') => NoTaskRunning'
       /\ (~child_signalled /\ child_signalled') =>
             (~fd_open' /\ ~child_waited /\ ~srv_ws_closed)
       /\ (~child_waited /\ child_waited') =>
             /\ ~fd_open /\ NoTaskRunning
             /\ child_signalled \/ child = "exited"
             /\ ~srv_ws_closed /\ ~srv_ws_closed'
       /\ (~srv_ws_closed /\ srv_ws_closed') =>
             /\ ~fd_open /\ NoTaskRunning
             /\ path # "docker" => (child_waited /\ child = "exited")]_vars

\* A local proxy was shut down after the browser left: the poller was
\* cancelled, the child was sent SIGTERM and waited for, the WebSocket is
\* closed.
C32_Witness ==
    /\ path = "pty"
    /\ t_pc = "ended"
    /\ ~browser_open
    /\ task["poll_window_state"] = "done"
    /\ child_signalled /\ child_waited
    /\ srv_ws_closed
\* ------------------------------------------------------------------------
\* Binary frames on the agent (bridge.py 269-277, terminal.py 72-78)
\* ------------------------------------------------------------------------

\* Frames of the server: input for channels 1 and 2, a frame that is only
\* a header, a frame for channel 256 and frames shorter than a header.
AgentFrames ==
    {<<0, 1, 97>>, <<0, 2, 98, 99>>, <<0, 1>>, <<1, 0, 97>>, <<0>>, <<>>}

\* The calls of TerminalSession.write that _handle_binary makes, as pairs
\* of the terminal and the bytes it is given.
AgentWrites_variant(a, data) ==
    IF Len(data) < 2 THEN {}
    ELSE {<<t, SubSeq(data, 3, Len(data))>> : t \in DictValues(a.terminals)}

AgentWrites(a, data) ==
    IF Len(data) < 2 THEN {}
    ELSE LET channel_id == UnpackChannel(data)
             payload == SubSeq(data, 3, Len(data))
             terminal == DictGet(a.terminals, channel_id, 0)
         IN IF terminal # 0 THEN {<<terminal, payload>>} ELSE {}

\* _handle_binary
AgentBinary(data) ==
    /\ agent.pc = "session"
    /\ ev' = [op |-> "binary", data |-> data,
              writes |-> AgentWrites(agent, data),
              before |-> agent.terminals]
    /\ UNCHANGED <<bridgeVars, termVars, reqVars, ptyVars, sideVars>>

NextBin ==
    \/ NextAgent
    \/ \E data \in AgentFrames : AgentBinary(data)

SpecBin == InitAgent /\ [][NextBin]_vars

\* C33: a binary frame of at least 2 bytes whose header is channel c has
\* its payload, without the header, written to the terminal registered
\* under c and to no other; a frame for a channel with no terminal and a
\* frame shorter than 2 bytes writes nothing; the terminals map is the same
\* before and after.
C33_BinaryRoutedByHeader ==
    ev.op = "binary" =>
        /\ agent.terminals = ev.before
        /\ \/ /\ Len(ev.data) >= 2
              /\ (256 * ev.data[1] + ev.data[2]) \in DOMAIN ev.before
              /\ ev.writes =
                    {<<ev.before[256 * ev.data[1] + ev.data[2]],
                       Tail(Tail(ev.data))>>}
           \/ /\ \/ Len(ev.data) < 2
                 \/ (256 * ev.data[1] + ev.data[2]) \notin DOMAIN ev.before
              /\ ev.writes = {}

\* Two terminals are attached and a frame for channel 2 was written to the
\* terminal of channel 2 alone.
C33_Witness ==
    /\ ev.op = "binary"
    /\ DOMAIN agent.terminals = {1, 2}
    /\ ev.data = <<0, 2, 98, 99>>
    /\ ev.writes = {<<agent.terminals[2], <<98, 99>>>>}
\* ------------------------------------------------------------------------
\* Source routing on the agent (bridge.py 406-436)
\* ------------------------------------------------------------------------
\* A string is the sequence of its pieces, ":" being a piece of its own and
\* <<>> the empty string; an argv is a sequence of strings.

AgentConfigs ==
    {[host_tmux_socket |-> <<"/tmp/tmux/default">>, docker_socket |-> ds] :
        ds \in {<<>>, <<"/var/run/docker.sock">>}}

Argvs ==
    {<< <<"tmux">>, <<"list-sessions">> >>,
     << <<"tmux">> >>,
     << <<"tmux">>, <<"kill-session">>, <<"-t">>, <<"main">> >>,
     << <<"echo">>, <<"hello">> >>,
     << <<"sudo">>, <<"tmux">>, <<"kill-server">> >>}

Sources ==
    {<<"local">>, <<"host">>, <<"docker", ":", "c1">>,
     <<"docker", ":", "c1", ":", "x">>, <<"docker", ":">>, <<"docker">>,
     <<"ssh", ":", "h1">>, <<>>}

AttachTargets == {<<"main", ":", "0">>, <<"a", ":", "b", ":", "1">>}

\* source.startswith("docker:")
StartsWithDocker(source) ==
    Len(source) >= 2 /\ source[1] = "docker" /\ source[2] = ":"

\* source.split(":", 1)[1]
AfterFirstColon(source) == SubSeq(source, 3, Len(source))

BuildCmdForSource_variant(config, cmd, source, interactive) ==
    IF source = <<"local">> THEN cmd
    ELSE IF source = <<"host">>
    THEN IF cmd # <<>> /\ cmd[1] = <<"tmux">>
         THEN <<cmd[1], <<"-S">>, config.host_tmux_socket>> \o Tail(cmd)
         ELSE cmd
    ELSE IF StartsWithDocker(source)
    THEN <<<<"docker">>>>
         \o (IF config.docker_socket # <<>>
             THEN << <<"-H">>, <<"unix", ":", "//">> \o config.docker_socket >>
             ELSE <<>>)
         \o << <<"exec">>, <<"-it">>, AfterFirstColon(source) >>
         \o cmd
    ELSE cmd

\* _build_cmd_for_source
BuildCmdForSource(config, cmd, source, interactive) ==
    IF source = <<"local">> THEN cmd
    ELSE IF source = <<"host">>
    THEN IF cmd # <<>> /\ cmd[1] = <<"tmux">>
         THEN <<cmd[1], <<"-S">>, config.host_tmux_socket>> \o Tail(cmd)
         ELSE cmd
    ELSE IF StartsWithDocker(source)
    THEN LET container_id == AfterFirstColon(source)
             d1 == <<<<"docker">>>>
             d2 == IF config.docker_socket # <<>>
                   THEN d1 \o << <<"-H">>,
                                 <<"unix", ":", "//">> \o config.docker_socket >>
                   ELSE d1
             d3 == Append(d2, <<"exec">>)
             d4 == IF interactive THEN Append(d3, <<"-it">>) ELSE d3
             d5 == Append(d4, container_id)
         IN d5 \o cmd
    ELSE cmd

\* _handle_attach builds the argv of tmux attach-session.
BuildForAttach(config, target, source) ==
    /\ LET cmd == << <<"tmux">>, <<"attach-session">>, <<"-t">>, target >>
       IN ev' = [op |-> "build_cmd", caller |-> "attach", config |-> config,
                 cmd |-> cmd, source |-> source,
                 out |-> BuildCmdForSource(config, cmd, source,
                                           StartsWithDocker(source))]
    /\ UNCHANGED <<bridgeVars, termVars, reqVars, ptyVars, sideVars>>

\* _handle_tmux_cmd builds the argv of a command that is not empty.
BuildForTmuxCmd(config, cmd, source) ==
    /\ cmd # <<>>
    /\ ev' = [op |-> "build_cmd", caller |-> "tmux_cmd", config |-> config,
              cmd |-> cmd, source |-> source,
              out |-> BuildCmdForSource(config, cmd, source, FALSE)]
    /\ UNCHANGED <<bridgeVars, termVars, reqVars, ptyVars, sideVars>>

NextRoute ==
    \/ \E config \in AgentConfigs : \E target \in AttachTargets :
          \E source \in Sources : BuildForAttach(config, target, source)
    \/ \E config \in AgentConfigs : \E cmd \in Argvs :
          \E source \in Sources : BuildForTmuxCmd(config, cmd, source)

SpecRoute == InitChan /\ [][NextRoute]_vars

\* The words docker puts before the argv, for C34.
DockerWords(hasSocket, socket, attach, id) ==
    <<<<"docker">>>>
    \o (IF hasSocket THEN << <<"-H">>, <<"unix", ":", "//">> \o socket >>
        ELSE <<>>)
    \o << <<"exec">> >>
    \o (IF attach THEN << <<"-it">> >> ELSE <<>>)
    \o <<id>>

MaxReports == 3         \* sleeps of the reporter in one connection
MaxMessages == 2        \* messages of the server in one connection

\* What a report meets: it is sent, _collect_sessions raises, ws.send raises.
ReportOutcomes == {"sent", "collect_raises", "send_raises"}

\* _session_loop is entered, after auth_ok.
ReportStart ==
    [pc |-> "initial", reporter |-> "none", sleeps |-> 0, tries |-> 0,
     sent |-> 0, msgs |-> 0]

\* The initial report, inside try / except Exception, then
\* reporter = asyncio.create_task(session_reporter()).
InitialReport(o) ==
    /\ mem.pc = "initial"
    /\ mem' = [mem EXCEPT !.pc = "loop", !.reporter = "sleeping",
                          !.tries = @ + 1,
                          !.sent = IF o = "sent" THEN @ + 1 ELSE @]
    /\ ev' = [op |-> "report", by |-> "initial", outcome |-> o,
              tries |-> mem.tries + 1]
    /\ UNCHANGED <<bridgeVars, termVars, reqVars, ptyVars, poller, nm, api,
                   agent>>

\* asyncio.sleep(session_report_interval) returns in the reporter.
ReporterWakes ==
    /\ mem.reporter = "sleeping"
    /\ mem.sleeps < MaxReports
    /\ mem' = [mem EXCEPT !.reporter = "reporting", !.sleeps = @ + 1]
    /\ ev' = [op |-> "wake"]
    /\ UNCHANGED <<bridgeVars, termVars, reqVars, ptyVars, poller, nm, api,
                   agent>>

\* The reporter collects and sends, inside try / except Exception, and
\* goes back to the sleep.
ReporterReports(o) ==
    /\ mem.reporter = "reporting"
    /\ mem' = [mem EXCEPT !.reporter = "sleeping", !.tries = @ + 1,
                          !.sent = IF o = "sent" THEN @ + 1 ELSE @]
    /\ ev' = [op |-> "report", by |-> "reporter", outcome |-> o,
              tries |-> mem.tries + 1]
    /\ UNCHANGED <<bridgeVars, termVars, reqVars, ptyVars, poller, nm, api,
                   agent>>

\* message_handler handles one message of the server.
MessageHandled ==
    /\ mem.pc = "loop"
    /\ mem.msgs < MaxMessages
    /\ mem' = [mem EXCEPT !.msgs = @ + 1]
    /\ ev' = [op |-> "message"]
    /\ UNCHANGED <<bridgeVars, termVars, reqVars, ptyVars, poller, nm, api,
                   agent>>

\* reporter.cancel(): the task gets CancelledError where it is suspended.
CancelReporter_variant(status) == status

CancelReporter(status) ==
    IF status \in {"sleeping", "reporting"} THEN "cancelling" ELSE status

\* message_handler returns (the socket closed) or raises: finally,
\* reporter.cancel() and await reporter.
LoopEnds(raises) ==
    /\ mem.pc = "loop"
    /\ mem' = [mem EXCEPT !.pc = "finally",
                          !.reporter = CancelReporter(@)]
    /\ ev' = [op |-> "loop_end", raises |-> raises]
    /\ UNCHANGED <<bridgeVars, termVars, reqVars, ptyVars, poller, nm, api,
                   agent>>

\* The reporter ends with CancelledError, which except Exception does not
\* catch, and await reporter returns.
ReporterCancelled ==
    /\ mem.pc = "finally"
    /\ mem.reporter = "cancelling"
    /\ mem' = [mem EXCEPT !.pc = "ended", !.reporter = "cancelled"]
    /\ ev' = [op |-> "reporter_cancelled"]
    /\ UNCHANGED <<bridgeVars, termVars, reqVars, ptyVars, poller, nm, api,
                   agent>>

InitReport ==
    /\ BridgeIdle
    /\ PtyUnused
    /\ PollIdle
    /\ NotifIdle
    /\ ApiIdle
    /\ AgentIdle
    /\ mem = ReportStart
    /\ ev = NoEvent

NextReport ==
    \/ \E o \in ReportOutcomes : InitialReport(o)
    \/ ReporterWakes
    \/ \E o \in ReportOutcomes : ReporterReports(o)
    \/ MessageHandled
    \/ \E raises \in BOOLEAN : LoopEnds(raises)
    \/ ReporterCancelled

SpecReport == InitReport /\ [][NextReport]_vars

\* The sleep of the reporter returns and a report ends, as awaits do; the
\* cancelled reporter is resumed.
SpecReportFair ==
    /\ SpecReport
    /\ WF_vars(\E o \in ReportOutcomes : InitialReport(o))
    /\ WF_vars(ReporterWakes)
    /\ WF_vars(\E o \in ReportOutcomes : ReporterReports(o))
    /\ WF_vars(ReporterCancelled)

\* C35: one report is tried right after authentication, before any message
\* is handled, and then one after every sleep of session_report_interval;
\* a report that fails is swallowed and the reporter tries again after the
\* next sleep unless the message loop has ended; when the message loop ends
\* the reporter is cancelled and no report is tried after that.
C35_ReporterSurvivesFailures ==
    /\ [](mem.pc = "initial" => (mem.tries = 0 /\ mem.msgs = 0))
    /\ [](mem.pc = "loop" => mem.reporter \in {"sleeping", "reporting"})
    /\ [](mem.pc = "loop" =>
            mem.tries = 1 + mem.sleeps
                        - (IF mem.reporter = "reporting" THEN 1 ELSE 0))
    /\ [](mem.pc = "ended" => mem.reporter = "cancelled")
    /\ [][mem.pc \in {"finally", "ended"} =>
             (mem'.tries = mem.tries /\ mem'.sent = mem.sent)]_vars
    /\ \A n \in 1..MaxReports :
          (ev.op = "report" /\ ev.outcome # "sent" /\ ev.tries = n)
             ~> \/ ev.op = "report" /\ ev.tries = n + 1
                \/ mem.pc \in {"finally", "ended"}
    /\ (mem.pc = "finally") ~> (mem.reporter = "cancelled")

\* The initial report and the first report of the reporter failed, the
\* reporter slept again and its next report was sent.
C35_Witness ==
    /\ ev.op = "report"
    /\ ev.by = "reporter"
    /\ ev.outcome = "sent"
    /\ mem.tries = 3
    /\ mem.sent = 1
    /\ mem.pc = "loop"
\* ------------------------------------------------------------------------
\* The life of a session token (auth.py 41-61)
\* ------------------------------------------------------------------------

\* Tokens create_session returns, and one it never returns.
LoginTokens == {"s1", "s2"}
AnyTokens == LoginTokens \cup {"forged"}

\* The module after import; made: the tokens create_session has returned.
SessStart ==
    [pin |-> TRUE, sessions |-> EmptyDict, now |-> 0, steps |-> 0,
     made |-> {}]

\* create_session(): secrets.token_urlsafe(32) is a token not seen before.
SessionCreate(t) ==
    /\ t \notin mem.made
    /\ mem' = [mem EXCEPT
                 !.sessions = DictSet(@, t, mem.now + SessionMaxAge),
                 !.made = @ \cup {t}]
    /\ ev' = [op |-> "create", token |-> t]
    /\ UNCHANGED <<bridgeVars, termVars, reqVars, ptyVars, poller, nm, api,
                   agent>>

\* validate_session(token)
SessionValidate(t) ==
    /\ LET r == ValidateSession(mem.sessions, mem.now, t)
       IN /\ mem' = [mem EXCEPT !.sessions = r.sessions]
          /\ ev' = [op |-> "validate", token |-> t, ok |-> r.ok,
                    before |-> mem.sessions]
    /\ UNCHANGED <<bridgeVars, termVars, reqVars, ptyVars, poller, nm, api,
                   agent>>

\* _sessions.pop(token, None)
DestroyIn_variant(table, token) == table

DestroyIn(table, token) == DictPop(table, token)

\* destroy_session(token)
SessionDestroy(t) ==
    /\ mem' = [mem EXCEPT !.sessions = DestroyIn(@, t)]
    /\ ev' = [op |-> "destroy", token |-> t]
    /\ UNCHANGED <<bridgeVars, termVars, reqVars, ptyVars, poller, nm, api,
                   agent>>

InitSess ==
    /\ BridgeIdle
    /\ PtyUnused
    /\ PollIdle
    /\ NotifIdle
    /\ ApiIdle
    /\ AgentIdle
    /\ mem = SessStart
    /\ ev = NoEvent

NextSess ==
    \/ \E t \in LoginTokens : SessionCreate(t)
    \/ \E t \in AnyTokens : SessionValidate(t)
    \/ \E t \in AnyTokens : SessionDestroy(t)
    \/ \E d \in {1, SessionMaxAge} : ClockStep(d)

SpecSess == InitSess /\ [][NextSess]_vars

\* The token is in the table and its expiry time has not passed.
LiveToken(t) == t \in DOMAIN mem.sessions /\ mem.now <= mem.sessions[t]

\* C36: a token create_session returned validates as true until
\* destroy_session is called on it or its expiry time passes; after either
\* it validates as false from then on; validating an expired token removes
\* it from the table; a token that was never created validates as false.
C36_TokenLife ==
    /\ [][\A t \in AnyTokens :
            /\ (ev'.op = "create" /\ ev'.token = t) => LiveToken(t)'
            /\ (LiveToken(t) /\ ~LiveToken(t)') =>
                  \/ ev'.op = "destroy" /\ ev'.token = t
                  \/ mem'.now > mem.now
            /\ (t \in mem.made /\ ~LiveToken(t)) => ~LiveToken(t)'
            /\ (ev'.op = "validate" /\ ev'.token = t) =>
                  /\ ev'.ok <=> LiveToken(t)
                  /\ ev'.ok <=> LiveToken(t)'
                  /\ ~ev'.ok => t \notin DOMAIN mem'.sessions
                  /\ t \notin mem.made => ~ev'.ok
            /\ (ev'.op = "destroy" /\ ev'.token = t) => ~LiveToken(t)']_vars

\* A token was created, its expiry time passed, and the validation that
\* refused it took it out of the table.
C36_Witness ==
    /\ ev.op = "validate"
    /\ ~ev.ok
    /\ ev.token \in DOMAIN ev.before
    /\ ev.token \notin DOMAIN mem.sessions
    /\ mem.made = LoginTokens
\* ------------------------------------------------------------------------
\* AuthMiddleware.dispatch (middleware.py 11-49)
\* ------------------------------------------------------------------------
\* A path is the sequence of its pieces; "/" is a piece of its own.

PUBLIC_PREFIXES ==
    {<<"/", "api", "/", "v1", "/", "auth", "/">>, <<"/", "health">>}

PUBLIC_EXACT_POST ==
    {<<"/", "api", "/", "v1", "/", "notifications">>,
     <<"/", "api", "/", "v1", "/", "notifications", "/", "dismiss">>}

HttpPaths ==
    {<<"/", "api", "/", "v1", "/", "containers">>,
     <<"/", "api", "/", "v1", "/", "auth", "/", "status">>,
     <<"/", "api", "/", "v1", "/", "auth">>,
     <<"/", "api", "/", "v1", "/", "notifications">>,
     <<"/", "api", "/", "v1", "/", "notifications", "/">>,
     <<"/", "api", "/", "v1", "/", "notifications", "/", "dismiss">>,
     <<"/", "api", "/", "v1", "/", "notifications", "/", "stream">>,
     <<"/", "health">>,
     <<"/", "health", "z">>,
     <<"/", "ws", "/", "terminal">>,
     <<"/", "api">>,
     <<"/">>,
     <<"/", "assets", "/", "index.js">>}

HttpMethods == {"GET", "POST"}

\* What dispatch returns: the 401 response, or the response of call_next;
\* and the token table validate_session leaves.
AuthDispatch_variant(a, method, url_path, cookie) ==
    IF \/ \E p \in PUBLIC_PREFIXES : IsPrefix(p, url_path)
       \/ ~IsPrefix(<<"/", "api", "/">>, url_path)
             /\ ~IsPrefix(<<"/", "ws", "/">>, url_path)
       \/ url_path \in PUBLIC_EXACT_POST
       \/ ~a.pin
    THEN [status |-> "call_next", sessions |-> a.sessions]
    ELSE IF cookie = NoCookie \/ cookie = ""
    THEN [status |-> "401", sessions |-> a.sessions]
    ELSE LET v == ValidateSession(a.sessions, a.now, cookie)
         IN [status |-> IF v.ok THEN "call_next" ELSE "401",
             sessions |-> v.sessions]

AuthDispatch(a, method, url_path, cookie) ==
    IF \E p \in PUBLIC_PREFIXES : IsPrefix(p, url_path)
    THEN [status |-> "call_next", sessions |-> a.sessions]
    ELSE IF /\ ~IsPrefix(<<"/", "api", "/">>, url_path)
            /\ ~IsPrefix(<<"/", "ws", "/">>, url_path)
    THEN [status |-> "call_next", sessions |-> a.sessions]
    ELSE IF method = "POST" /\ url_path \in PUBLIC_EXACT_POST
    THEN [status |-> "call_next", sessions |-> a.sessions]
    ELSE IF ~a.pin
    THEN [status |-> "call_next", sessions |-> a.sessions]
    ELSE IF cookie = NoCookie \/ cookie = ""
    THEN [status |-> "401", sessions |-> a.sessions]
    ELSE LET v == ValidateSession(a.sessions, a.now, cookie)
         IN [status |-> IF v.ok THEN "call_next" ELSE "401",
             sessions |-> v.sessions]

\* One HTTP request passes the middleware; the handler runs inside
\* call_next.
HttpRequest(method, url_path, cookie) ==
    /\ LET r == AuthDispatch(mem, method, url_path, cookie)
       IN /\ mem' = [mem EXCEPT !.sessions = r.sessions]
          /\ ev' = [op |-> "http", method |-> method, path |-> url_path,
                    cookie |-> cookie, status |-> r.status,
                    handler_ran |-> r.status = "call_next",
                    pin |-> mem.pin, before |-> mem.sessions,
                    now |-> mem.now]
    /\ UNCHANGED <<bridgeVars, termVars, reqVars, ptyVars, poller, nm, api,
                   agent>>

NextHttp ==
    \/ \E t \in SessionTokens : CreateSession(t)
    \/ \E d \in {1, SessionMaxAge} : ClockStep(d)
    \/ \E method \in HttpMethods : \E url_path \in HttpPaths :
          \E cookie \in Cookies : HttpRequest(method, url_path, cookie)

SpecHttp == InitOpen /\ [][NextHttp]_vars

\* The request carries a session cookie that is in the table and has not
\* expired.
HasValidCookie ==
    /\ ev.cookie \in DOMAIN ev.before
    /\ ev.now <= ev.before[ev.cookie]

\* The exceptions of C37.
ExemptRequest ==
    \/ Len(ev.path) >= 7
          /\ SubSeq(ev.path, 1, 7) = <<"/", "api", "/", "v1", "/", "auth", "/">>
    \/ Len(ev.path) >= 2 /\ SubSeq(ev.path, 1, 2) = <<"/", "health">>
    \/ /\ ev.method = "POST"
       /\ \/ ev.path = <<"/", "api", "/", "v1", "/", "notifications">>
          \/ ev.path = <<"/", "api", "/", "v1", "/", "notifications", "/",
                         "dismiss">>

\* C37: with a PIN set, a request to a path under /api/ without a valid
\* session cookie gets 401 and its handler is not run, except for paths
\* under /api/v1/auth/, /health and POSTs to /api/v1/notifications and
\* /api/v1/notifications/dismiss, which pass; with no PIN set every request
\* passes without a cookie.
C37_ApiNeedsSession ==
    ev.op = "http" =>
        /\ (/\ ev.pin
            /\ Len(ev.path) >= 3 /\ SubSeq(ev.path, 1, 3) = <<"/", "api", "/">>
            /\ ~HasValidCookie
            /\ ~ExemptRequest)
           => (ev.status = "401" /\ ~ev.handler_ran)
        /\ ExemptRequest => (ev.status = "call_next" /\ ev.handler_ran)
        /\ ~ev.pin => (ev.status = "call_next" /\ ev.handler_ran)

\* With a PIN set, a GET of the notifications path with an expired cookie
\* was answered 401.
C37_Witness ==
    /\ ev.op = "http"
    /\ ev.pin
    /\ ev.method = "GET"
    /\ ev.path = <<"/", "api", "/", "v1", "/", "notifications">>
    /\ ev.cookie \in DOMAIN ev.before
    /\ ev.status = "401"
    /\ ~ev.handler_ran
\* ------------------------------------------------------------------------
\* Started terminals of the agent (bridge.py 303-346, terminal.py 37-110)
\* ------------------------------------------------------------------------

\* C38: every TerminalSession whose process has been started is the value
\* stored in the terminals map under a channel or has been stopped (read
\* task cancelled, fd closed, process terminated), after any sequence of
\* attach, detach and disconnect, an attach on a channel that already has
\* a terminal included.
C38_StartedStoredOrStopped ==
    \A t \in AgentTerms :
        agent.objs[t].proc # "none" =>
            \/ \E c \in DOMAIN agent.terminals : agent.terminals[c] = t
            \/ Stopped(agent.objs[t])
\* ------------------------------------------------------------------------
\* Replies of the agent to tmux_cmd and attach (bridge.py 303-338, 357-402)
\* ------------------------------------------------------------------------
RequestIds == {"r1", "r2"}

\* What a command meets: exit 0, a non-zero exit, no end within 10 s, or
\* create_subprocess_exec raising.
CmdOutcomes == {"success", "nonzero", "timeout", "spawn_error"}

\* What an attach meets: the terminal starts, start() raises, or resize()
\* raises after the start.
AttachOutcomes == {"started", "start_raises", "resize_raises"}

AgentCmds == {<<>>, <<"tmux", "list-sessions">>}

CmdResult(id, output, error) ==
    [type |-> "cmd_result", id |-> id, output |-> output, error |-> error]

\* The frames _handle_tmux_cmd sends, the socket being open.
TmuxCmdSends_variant(id, cmd, o) ==
    IF cmd = <<>> THEN <<CmdResult(id, <<>>, <<"Empty command">>)>>
    ELSE IF o = "timeout" THEN <<>>
    ELSE IF o = "spawn_error" THEN <<CmdResult(id, <<>>, <<"exc">>)>>
    ELSE <<CmdResult(id, <<"out">>,
                     IF o = "nonzero" THEN <<"err">> ELSE NoError)>>

TmuxCmdSends(id, cmd, o) ==
    IF cmd = <<>> THEN <<CmdResult(id, <<>>, <<"Empty command">>)>>
    ELSE IF o = "timeout"
    THEN <<CmdResult(id, <<>>, <<"Command timed out">>)>>
    ELSE IF o = "spawn_error" THEN <<CmdResult(id, <<>>, <<"exc">>)>>
    ELSE <<CmdResult(id, <<"out">>,
                     IF o = "nonzero" THEN <<"err">> ELSE NoError)>>

\* _handle_tmux_cmd, the socket being open
AgentTmuxCmd(id, cmd, o) ==
    /\ agent.pc = "session"
    /\ ev' = [op |-> "tmux_cmd", id |-> id, cmd |-> cmd, outcome |-> o,
              sent |-> TmuxCmdSends(id, cmd, o)]
    /\ UNCHANGED <<bridgeVars, termVars, reqVars, ptyVars, sideVars>>

\* _handle_attach, the socket being open: the terminal is stored before
\* attach_ok is sent; an exception of start() or resize() gives
\* attach_error.
AgentAttach(id, c, t, o) ==
    /\ agent.pc = "session"
    /\ agent.objs[t] = NoTerminal
    /\ \A u \in AgentTerms : u < t => agent.objs[u] # NoTerminal
    /\ LET stored == IF o = "started"
                     THEN DictSet(agent.terminals, c, t)
                     ELSE agent.terminals
       IN /\ agent' = [agent EXCEPT
                         !.objs[t] = IF o = "start_raises" THEN StartFailed
                                     ELSE Started,
                         !.terminals = stored]
          /\ ev' = [op |-> "attach_req", id |-> id, channel |-> c, t |-> t,
                    outcome |-> o,
                    sent |-> << [type |-> IF o = "started" THEN "attach_ok"
                                          ELSE "attach_error",
                                 id |-> id, channel_id |-> c,
                                 stored |-> DictGet(stored, c, 0) = t] >>]
    /\ UNCHANGED <<bridgeVars, termVars, reqVars, ptyVars, poller, nm, api,
                   mem>>

NextCmd ==
    \/ ConnectOk
    \/ \E r \in AuthReplies : AuthReply(r)
    \/ \E id \in RequestIds : \E cmd \in AgentCmds : \E o \in CmdOutcomes :
          AgentTmuxCmd(id, cmd, o)
    \/ \E id \in RequestIds : \E c \in AgentChannels : \E t \in AgentTerms :
          \E o \in AttachOutcomes : AgentAttach(id, c, t, o)
    \/ \E c \in AgentChannels : HandleDetach(c)
    \/ SessionEnds
    \/ SleepDone

SpecCmd == InitAgent /\ [][NextCmd]_vars

\* C39: a tmux_cmd request is answered by exactly one cmd_result with the
\* id of the request, whatever the outcome (success, non-zero exit, 10 s
\* timeout, spawn error, empty command); an attach request is answered by
\* exactly one of attach_ok and attach_error with its id; attach_ok is sent
\* only with the terminal stored in the map under the requested channel.
C39_OneReplyPerRequest ==
    /\ ev.op = "tmux_cmd" =>
          /\ Len(ev.sent) = 1
          /\ ev.sent[1].type = "cmd_result"
          /\ ev.sent[1].id = ev.id
    /\ ev.op = "attach_req" =>
          /\ Len(ev.sent) = 1
          /\ ev.sent[1].type \in {"attach_ok", "attach_error"}
          /\ ev.sent[1].id = ev.id
          /\ ev.sent[1].type = "attach_ok" =>
                /\ ev.sent[1].stored
                /\ ev.channel \in DOMAIN agent.terminals
                /\ agent.terminals[ev.channel] = ev.t
                /\ agent.objs[ev.t] = Started

\* A command that did not end within 10 s was answered with one cmd_result
\* while a terminal was attached.
C39_Witness ==
    /\ ev.op = "tmux_cmd"
    /\ ev.outcome = "timeout"
    /\ ev.cmd # <<>>
    /\ Len(ev.sent) = 1
    /\ ev.sent[1].error = <<"Command timed out">>
    /\ agent.terminals # EmptyDict
\* ------------------------------------------------------------------------
\* Responses whose id is not waiting (bridge_manager.py 76-79,
\* ws/bridge.py 109-132)
\* ------------------------------------------------------------------------

\* A cmd_result whose id is a JSON array.
BadIdText ==
    [json |-> "object",
     obj |-> [type |-> "cmd_result", id |-> UnhashableId, output |-> "out"]]

RespTexts == ReqTexts \cup {BadIdText}

\* Requests, their responses, and a browser terminal on the connection.
NextResp ==
    \/ NextReq
    \/ \E w \in BridgeTerms : TermAllocate(w, "b1")
    \/ \E w \in BridgeTerms : TermRegister(w)
    \/ \E h \in ReqConns : HandleText(h, BadIdText)
    \/ \E h \in ReqConns : FinCloseNext(h)

SpecResp == Init /\ [][NextResp]_vars

\* m is a response and its id is not the id of a waiting request of h.
StaleResponse(h, m) ==
    /\ m.json = "object"
    /\ DictGet(m.obj, "type", "") \in RespTypes
    /\ LET req_id == DictGet(m.obj, "id", 0)
       IN ~(req_id \in pending[h] /\ fut[req_id] = "pending")

\* C40: a response frame whose id is not waiting (never issued, already
\* resolved, or timed out and removed) is ignored: the step that handles it
\* changes no pending entry, no terminal registration, no session list, no
\* future and no result, and leaves the connection registered and its
\* handler in the loop.
C40_StaleResponseIgnored ==
    [][\A h \in ReqConns : \A m \in RespTexts :
          (StaleResponse(h, m) /\ HandleText(h, m)) =>
              /\ pending' = pending
              /\ terminal_relays' = terminal_relays
              /\ sessions' = sessions
              /\ fut' = fut
              /\ fut_result' = fut_result
              /\ req_result' = req_result
              /\ bridges' = bridges
              /\ pc' = pc]_vars

====
